---- MODULE Spec2Model ----
(***************************************************************************)
(* A model of the pilock GPIO crate: the raw GPIO driver and its pin/bus   *)
(* allocator (gpio/src/raw.rs, gpio/src/lib.rs), the raw PWM driver        *)
(* (gpio/src/pwm/raw.rs), the clock divisor conversions                    *)
(* (gpio/src/clock/raw.rs), the timed debouncer                            *)
(* (gpio/src/debounce/timed.rs) and the rotary encoder decoder             *)
(* (gpio/src/rotenc/mod.rs).                                               *)
(*                                                                         *)
(* Each component has its own specification over the shared variables:     *)
(*   Spec          the raw GPIO driver used from one thread                *)
(*   SpecRace      get_pin / get_pin_bus / drop called from two threads    *)
(*   SpecRelease   one thread releasing a pin while another allocates      *)
(*   SpecBus       a 4-wide bus: views, policies, nibble write and read    *)
(*   SpecDebounce  TimedDebounce::read under advancing time                *)
(*   SpecRotEnc    RotEnc::read                                            *)
(*   SpecDivisor   the clock divisor conversions                           *)
(*   SpecPwm       the raw PWM driver                                      *)
(***************************************************************************)
EXTENDS Integers, Sequences, FiniteSets, TLC

(***************************************************************************)
(* 32-bit words.  A u32 is the set of the positions of its 1 bits, so that *)
(* every bit of a register (bit 31 included) is kept and the shifts, masks *)
(* and complements of the source are computed, not assumed.                *)
(***************************************************************************)
WordBits == 0..31

\* the word of a number 0 <= n < 2^31
Word(n) == {i \in 0..30 : (n \div (2^i)) % 2 = 1}

RECURSIVE ToNat(_)
\* the number of a word whose bit 31 is clear
ToNat(w) == IF w = {} THEN 0
            ELSE LET b == CHOOSE x \in w : \A y \in w : y <= x
                 IN  2^b + ToNat(w \ {b})

Shl(w, k) == {b + k : b \in w} \cap WordBits
Shr(w, k) == {b - k : b \in w} \cap WordBits
And(a, b) == a \cap b
Or(a, b)  == a \cup b
Not(a)    == WordBits \ a

\* F applied to the value of x, x being computed once
Bind(x, F(_)) == CHOOSE y \in {F(v) : v \in {x}} : TRUE

(***************************************************************************)
(* lib.rs: error kinds and the policies of a pin or a bus.                 *)
(***************************************************************************)
GpioError == {"AlreadyInUse", "InvalidArgument", "NotSupported"}
GpioActiveLevel == {"High", "Low"}
GpioBias == {"None", "PullUp", "PullDown"}
GpioDriveMode == {"PushPull", "OpenDrain", "OpenSource"}

\* GpioActiveLevel::get_state
ActiveLevel_get_state(level, value) ==
    IF level = "High" THEN value ELSE ~value

\* every mode taken for push-pull
DriveMode_get_state_pushpull(mode, value) == IF value THEN "high" ELSE "low"

\* GpioDriveMode::get_state: "float" is None, otherwise the level driven
DriveMode_get_state(mode, value) ==
    CASE mode = "PushPull"   -> IF value THEN "high" ELSE "low"
      [] mode = "OpenDrain"  -> IF value THEN "float" ELSE "low"
      [] mode = "OpenSource" -> IF value THEN "high" ELSE "float"

(***************************************************************************)
(* The GPIO register block as the driver's mapped window sees it: a word   *)
(* index (byte offset / 4) is read or written.  hw is the state of the     *)
(* block: the function-select words, the output latch (driven through the  *)
(* write-1 GPSET / GPCLR words), the pull words, the level of every pad,   *)
(* and wr, the word indices written since the current call began.          *)
(***************************************************************************)
PIN_COUNT == 58

GPFSEL == 0          \* 0x00 / 4, six words
GPSET  == 7          \* 0x1c / 4, two words
GPCLR  == 10         \* 0x28 / 4, two words
GPLEV  == 13         \* 0x34 / 4, two words
GPPUD  == 57         \* 0xE4 / 4, four words

\* the 3-bit function-select field of a pin is 001 (output)
IsOutput(fsel, pin) ==
    LET w == fsel[pin \div 10]
        s == (pin % 10) * 3
    IN  s \in w /\ (s + 1) \notin w /\ (s + 2) \notin w

\* the pads of `pins` after a register write: a pad in output function
\* carries its latch bit; any other pad keeps the level last put on it until
\* something else drives the line
Settle(fsel, out, pad, pins) ==
    [k \in 0..1 |->
        LET driven == {b \in WordBits : (32 * k + b) \in pins
                                          /\ IsOutput(fsel, 32 * k + b)}
        IN  (pad[k] \ driven) \cup (driven \cap out[k])]

\* the pins of function-select word n, and of the bits of set/clear word k
PinsOfFsel(n) == {p \in (10 * n)..(10 * n + 9) : p < PIN_COUNT}
PinsOfBits(k, value) == {32 * k + b : b \in value} \cap (0..(PIN_COUNT - 1))

\* register_ptr.write_volatile(value) at word index idx
MmioWrite(hw, idx, value) ==
    Bind([hw EXCEPT !.wr = @ \cup {idx}], LAMBDA blk : Bind(value, LAMBDA v :
    CASE idx \in GPFSEL..(GPFSEL + 5) ->
            LET f == [blk.fsel EXCEPT ![idx - GPFSEL] = v] IN
            [blk EXCEPT !.fsel = f,
                        !.pad = Settle(f, blk.out, blk.pad, PinsOfFsel(idx - GPFSEL))]
      [] idx \in GPSET..(GPSET + 1) ->
            LET o == [blk.out EXCEPT ![idx - GPSET] = Or(@, v)] IN
            [blk EXCEPT !.out = o,
                        !.pad = Settle(blk.fsel, o, blk.pad, PinsOfBits(idx - GPSET, v))]
      [] idx \in GPCLR..(GPCLR + 1) ->
            LET o == [blk.out EXCEPT ![idx - GPCLR] = And(@, Not(v))] IN
            [blk EXCEPT !.out = o,
                        !.pad = Settle(blk.fsel, o, blk.pad, PinsOfBits(idx - GPCLR, v))]
      [] idx \in GPPUD..(GPPUD + 3) ->
            [blk EXCEPT !.pud = [@ EXCEPT ![idx - GPPUD] = v]]
      [] OTHER -> blk))

\* register_ptr.read_volatile() at word index idx
MmioRead(hw, idx) ==
    CASE idx \in GPFSEL..(GPFSEL + 5) -> hw.fsel[idx - GPFSEL]
      [] idx \in GPLEV..(GPLEV + 1)   -> hw.pad[idx - GPLEV]
      [] idx \in GPPUD..(GPPUD + 3)   -> hw.pud[idx - GPPUD]
      [] OTHER -> {}

\* a call begins: nothing written yet
BeginCall(hw) == [hw EXCEPT !.wr = {}]

(***************************************************************************)
(* raw.rs: the register primitives of RawGpioDriver.  Each returns         *)
(* [res, hw]: the result ("Ok" or an error) and the block afterwards.      *)
(***************************************************************************)
Done(hw) == [res |-> "Ok", hw |-> hw]
Fail(e, hw) == [res |-> e, hw |-> hw]

\* raw_set_pin_function writing the field without reading the word
raw_set_pin_function_blind(hw, pin_index, function) ==
    IF function > 7 THEN Fail("InvalidArgument", hw)
    ELSE IF pin_index >= PIN_COUNT THEN Fail("InvalidArgument", hw)
    ELSE LET reg   == GPFSEL + pin_index \div 10
             shift == (pin_index % 10) * 3
         IN  Done(MmioWrite(hw, reg, Shl(Word(function), shift)))

raw_set_pin_function(hw, pin_index, function) ==
    IF function > 7 THEN Fail("InvalidArgument", hw)
    ELSE IF pin_index >= PIN_COUNT THEN Fail("InvalidArgument", hw)
    ELSE LET reg   == GPFSEL + pin_index \div 10
             shift == (pin_index % 10) * 3
             value == Or(And(MmioRead(hw, reg), Not(Shl(Word(7), shift))),
                         Shl(Word(function), shift))
         IN  Done(MmioWrite(hw, reg, value))

raw_get_pin_function(hw, pin_index) ==
    ToNat(And(Shr(MmioRead(hw, GPFSEL + pin_index \div 10),
                  (pin_index % 10) * 3), Word(7)))

raw_set_pin_output(hw, pin_index, high) ==
    IF pin_index >= PIN_COUNT THEN Fail("InvalidArgument", hw)
    ELSE LET reg == (IF high THEN GPSET ELSE GPCLR) + pin_index \div 32
         IN  Done(MmioWrite(hw, reg, Shl(Word(1), pin_index % 32)))

raw_get_pin_level(hw, pin_index) ==
    And(Shr(MmioRead(hw, GPLEV + pin_index \div 32), pin_index % 32),
        Word(1)) # {}

BiasValue(bias) ==
    CASE bias = "None" -> 0 [] bias = "PullUp" -> 1 [] bias = "PullDown" -> 2

raw_set_bias(hw, pin_index, bias) ==
    IF pin_index >= PIN_COUNT THEN Fail("InvalidArgument", hw)
    ELSE LET reg   == GPPUD + pin_index \div 16
             shift == (pin_index % 16) * 2
             value == Or(And(MmioRead(hw, reg), Not(Shl(Word(3), shift))),
                         Shl(Word(BiasValue(bias)), shift))
         IN  Done(MmioWrite(hw, reg, value))

\* the 2-bit pull field of a pin
raw_get_bias(hw, pin_index) ==
    ToNat(And(Shr(MmioRead(hw, GPPUD + pin_index \div 16),
                  (pin_index % 16) * 2), Word(3)))

\* r if it failed (the ? operator), otherwise what K makes of its block
Try(r, K(_)) == Bind(r, LAMBDA a : IF a.res # "Ok" THEN a ELSE K(a.hw))

\* raw_reset without the write to GPCLR
raw_reset_no_latch(hw, pin_index) ==
    Try(raw_set_pin_function(hw, pin_index, 0), LAMBDA h1 :
        raw_set_bias(h1, pin_index, "None"))

\* RawGpioDriver::raw_reset
raw_reset(hw, pin_index) ==
    Try(raw_set_pin_function(hw, pin_index, 0), LAMBDA h1 :
    Try(raw_set_bias(h1, pin_index, "None"), LAMBDA h2 :
        raw_set_pin_output(h2, pin_index, FALSE)))

drive_pin(hw, pin_index, high, mode) ==
    LET output == DriveMode_get_state(mode, high) IN
    IF output = "float"
    THEN raw_set_pin_function(hw, pin_index, 0)
    ELSE Try(raw_set_pin_function(hw, pin_index, 1), LAMBDA h1 :
             raw_set_pin_output(h1, pin_index, output = "high"))

(***************************************************************************)
(* used_pins: BitVec<AtomicU8>, PIN_COUNT bits in 8-bit elements, bit      *)
(* index % 8 of element index / 8 (Lsb0).  An element is the set of its 1  *)
(* bits.  A read loads one element; set_aliased is one atomic fetch_or or  *)
(* fetch_and on one element.                                               *)
(***************************************************************************)
ElemBits == 8

NoPinsUsed == [e \in 0..((PIN_COUNT - 1) \div ElemBits) |-> {}]

\* self.used_pins[index]
TestBit(used, index) == (index % ElemBits) \in used[index \div ElemBits]

\* the indices whose bit is set
UsedSet(used) == {i \in 0..(PIN_COUNT - 1) : TestBit(used, i)}

\* an element loses every bit but the addressed one: a plain store of the
\* mask where the source has fetch_or / fetch_and
set_aliased_store(used, index, value) ==
    [used EXCEPT ![index \div ElemBits] =
        IF value THEN Shl(Word(1), index % ElemBits) ELSE {}]

\* self.used_pins.set_aliased(index, value)
set_aliased(used, index, value) ==
    LET mask == Shl(Word(1), index % ElemBits) IN
    [used EXCEPT ![index \div ElemBits] =
        IF value THEN Or(@, mask) ELSE And(@, Not(mask))]

(***************************************************************************)
(* raw.rs: get_pin, get_pin_bus and the two Drop impls, as functions of    *)
(* (used_pins, hw).  Each returns [res, used, hw].                         *)
(***************************************************************************)
Outcome(res, used, hw) == [res |-> res, used |-> used, hw |-> hw]

\* get_pin without the in-use test
get_pin_unchecked(used, hw, index) ==
    IF index >= PIN_COUNT THEN Outcome("InvalidArgument", used, hw)
    ELSE Bind(raw_reset(hw, index), LAMBDA r :
              Outcome(r.res, set_aliased(used, index, TRUE), r.hw))

\* RawGpioDriver::get_pin
get_pin(used, hw, index) ==
    IF index >= PIN_COUNT THEN Outcome("InvalidArgument", used, hw)
    ELSE IF TestBit(used, index) THEN Outcome("AlreadyInUse", used, hw)
    ELSE Bind(raw_reset(hw, index), LAMBDA r :
              Outcome(r.res, set_aliased(used, index, TRUE), r.hw))

RECURSIVE LeaseAll(_, _, _, _)
\* the allocation loop of get_pin_bus, from position k on
LeaseAll(used, hw, indices, k) ==
    IF k > Len(indices) THEN Outcome("Ok", used, hw)
    ELSE Bind(<<set_aliased(used, indices[k], TRUE), raw_reset(hw, indices[k])>>,
              LAMBDA ur : IF ur[2].res # "Ok"
                          THEN Outcome(ur[2].res, ur[1], ur[2].hw)
                          ELSE LeaseAll(ur[1], ur[2].hw, indices, k + 1))

RECURSIVE LeaseEach(_, _, _, _)
\* a bus allocation that tests each index as it takes it
LeaseEach(used, hw, indices, k) ==
    IF k > Len(indices) THEN Outcome("Ok", used, hw)
    ELSE IF indices[k] >= PIN_COUNT THEN Outcome("InvalidArgument", used, hw)
    ELSE IF TestBit(used, indices[k]) THEN Outcome("AlreadyInUse", used, hw)
    ELSE Bind(<<set_aliased(used, indices[k], TRUE), raw_reset(hw, indices[k])>>,
              LAMBDA ur : IF ur[2].res # "Ok"
                          THEN Outcome(ur[2].res, ur[1], ur[2].hw)
                          ELSE LeaseEach(ur[1], ur[2].hw, indices, k + 1))

get_pin_bus_eager(used, hw, indices) == LeaseEach(used, hw, indices, 1)

\* RawGpioDriver::get_pin_bus
get_pin_bus(used, hw, indices) ==
    IF \E k \in 1..Len(indices) : indices[k] >= PIN_COUNT
    THEN Outcome("InvalidArgument", used, hw)
    ELSE IF \E k \in 1..Len(indices) : TestBit(used, indices[k])
    THEN Outcome("AlreadyInUse", used, hw)
    ELSE LeaseAll(used, hw, indices, 1)

\* Drop for RawGpioPin
drop_pin(used, hw, pin_index) ==
    Outcome("Ok", set_aliased(used, pin_index, FALSE), hw)

RECURSIVE AllToInput(_, _, _)
\* the inner loop of Drop for RawGpioBus: every pin to input, errors ignored
AllToInput(hw, indices, k) ==
    IF k > Len(indices) THEN hw
    ELSE Bind(raw_set_pin_function(hw, indices[k], 0).hw,
              LAMBDA h1 : AllToInput(h1, indices, k + 1))

RECURSIVE DropEach(_, _, _, _)
\* the outer loop of Drop for RawGpioBus, from position k on
DropEach(used, hw, indices, k) ==
    IF k > Len(indices) THEN Outcome("Ok", used, hw)
    ELSE Bind(<<set_aliased(used, indices[k], FALSE), AllToInput(hw, indices, 1)>>,
              LAMBDA uh : DropEach(uh[1], uh[2], indices, k + 1))

\* a drop that clears the bits and leaves the function of the pins
drop_bus_bits_only(used, hw, indices) ==
    Outcome("Ok",
            [e \in DOMAIN used |->
                used[e] \ {indices[k] % ElemBits :
                              k \in {j \in 1..Len(indices) : indices[j] \div ElemBits = e}}],
            hw)

\* Drop for RawGpioBus
drop_bus(used, hw, indices) == DropEach(used, hw, indices, 1)

(***************************************************************************)
(* raw.rs, lib.rs: the calls of a RawGpioBus and the nibble helpers of a   *)
(* 4-wide bus, as functions of the register block.                         *)
(***************************************************************************)
RECURSIVE SetFunctions(_, _, _, _)
\* the loop of RawGpioBus::as_input / as_output, from position k on
SetFunctions(hw, indices, function, k) ==
    IF k > Len(indices) THEN Done(hw)
    ELSE Try(raw_set_pin_function(hw, indices[k], function),
             LAMBDA h1 : SetFunctions(h1, indices, function, k + 1))

RECURSIVE DriveAll(_, _, _, _, _)
\* the loop of RawGpioBus::set_drive_mode, from position k on
DriveAll(hw, indices, high, mode, k) ==
    IF k > Len(indices) THEN Done(hw)
    ELSE Try(drive_pin(hw, indices[k], high, mode),
             LAMBDA h1 : DriveAll(h1, indices, high, mode, k + 1))

RECURSIVE BusWrite(_, _, _, _)
\* RawGpioBusOutput::write, from position k on
BusWrite(hw, bus, values, k) ==
    IF k > Len(bus.pins) THEN Done(hw)
    ELSE Try(drive_pin(hw, bus.pins[k],
                       ActiveLevel_get_state(bus.active_level, values[k]),
                       bus.drive_mode),
             LAMBDA h1 : BusWrite(h1, bus, values, k + 1))

\* RawGpioBusInput::read
BusRead(hw, bus) ==
    [k \in 1..Len(bus.pins) |->
        ActiveLevel_get_state(bus.active_level, raw_get_pin_level(hw, bus.pins[k]))]

\* value & (1 << i) != 0, for a u8
BitOf(value, i) == (value \div (2^i)) % 2 = 1

\* the values array of a nibble written with its bits in the opposite order
NibbleValuesReversed(value) == [k \in 1..4 |-> BitOf(value, 4 - k)]

\* the values array write_nibble builds: values[i] = bit i (arrays from 1)
NibbleValues(value) == [k \in 1..4 |-> BitOf(value, k - 1)]

\* GpioBusOutput<4>::write_nibble
write_nibble(hw, bus, value) ==
    IF value > 15 THEN Fail("InvalidArgument", hw)
    ELSE BusWrite(hw, bus, NibbleValues(value), 1)

RECURSIVE NibbleOf(_, _)
\* the loop of read_nibble: nibble |= 1 << i for every values[i]
NibbleOf(values, k) ==
    IF k > 4 THEN 0
    ELSE (IF values[k] THEN 2^(k - 1) ELSE 0) + NibbleOf(values, k + 1)

\* GpioBusInput<4>::read_nibble
read_nibble(hw, bus) == NibbleOf(BusRead(hw, bus), 1)

(***************************************************************************)
(* debounce/timed.rs: TimedDebounce.  Instants are milliseconds.           *)
(***************************************************************************)
DebounceTime == 50

None == [some |-> FALSE, at |-> 0]
Some(x) == [some |-> TRUE, at |-> x]

\* TimedDebounce::new
TimedDebounce_new == [state |-> FALSE, changed_since |-> None]

\* TimedDebounce::read without the branch of the expired timer
TimedDebounce_read_no_expiry(db, now, new_state) ==
    LET previous_state == db.state IN
    IF db.changed_since.some
    THEN [ret |-> previous_state,
          db |-> IF previous_state = new_state
                 THEN [db EXCEPT !.changed_since = None] ELSE db,
          started |-> FALSE]
    ELSE IF previous_state # new_state
         THEN [ret |-> previous_state,
               db |-> [state |-> new_state, changed_since |-> Some(now)],
               started |-> TRUE]
         ELSE [ret |-> previous_state, db |-> db, started |-> FALSE]

\* TimedDebounce::read with the wrapped input returning Ok(new_state) at
\* the instant `now`: [ret, db, started], started telling whether this read
\* started the hold timer
TimedDebounce_read(db, now, new_state) ==
    LET previous_state == db.state IN
    IF db.changed_since.some
    THEN IF now - db.changed_since.at < DebounceTime
         THEN [ret |-> previous_state,
               db |-> IF previous_state = new_state
                      THEN [db EXCEPT !.changed_since = None] ELSE db,
               started |-> FALSE]
         ELSE [ret |-> new_state,
               db |-> [state |-> new_state, changed_since |-> None],
               started |-> FALSE]
    ELSE IF previous_state # new_state
         THEN [ret |-> previous_state,
               db |-> [state |-> new_state, changed_since |-> Some(now)],
               started |-> TRUE]
         ELSE [ret |-> previous_state, db |-> db, started |-> FALSE]

(***************************************************************************)
(* rotenc/mod.rs: RotEnc.  The poll counter is a u32, kept as two 16-bit   *)
(* limbs <<high, low>>.                                                    *)
(***************************************************************************)
Limb == 65536

U32Zero == <<0, 0>>
U32One == <<0, 1>>

\* a + n for n < 2^16: the 32-bit sum and whether it left the u32 range
U32Add(a, n) ==
    LET lo == a[2] + n
        hi == a[1] + (lo \div Limb)
    IN  [overflow |-> hi >= Limb, value |-> <<hi % Limb, lo % Limb>>]

wrapping_add(a, n) == U32Add(a, n).value

U32Le(a, b) == a[1] < b[1] \/ (a[1] = b[1] /\ a[2] <= b[2])

\* a / n of u32, for 0 < n < 2^15: the quotient, limb by limb
U32Div(a, n) ==
    <<a[1] \div n, ((a[1] % n) * Limb + a[2]) \div n>>

\* a * n of u32, for n < 2^15: the 32-bit product and whether it left the
\* u32 range
U32Mul(a, n) ==
    LET lo == a[2] * n
        hi == a[1] * n + (lo \div Limb)
    IN  [overflow |-> hi >= Limb, value |-> <<hi % Limb, lo % Limb>>]

\* a u32 as the word of a register, and back
U32Word(a) == {i + 16 : i \in Word(a[1])} \cup Word(a[2])
WordU32(w) == <<ToNat({i - 16 : i \in {j \in w : j >= 16}}), ToNat({j \in w : j < 16})>>

STATES_CLOCKWISE == << <<FALSE, FALSE>>, <<TRUE, FALSE>>, <<TRUE, TRUE>>, <<FALSE, TRUE>> >>

ticks_per_rotation == 2
reading_limit == 200

\* STATES_CLOCKWISE.iter().position(|&s| s == state), counted from 0
Position(state) == (CHOOSE i \in 1..4 : STATES_CLOCKWISE[i] = state) - 1

\* the two branches with their senses exchanged
RotationMirrored(prev_idx, curr_idx) ==
    IF (curr_idx + 1) % 4 = prev_idx THEN 1
    ELSE IF (prev_idx + 1) % 4 = curr_idx THEN 0 - 1
    ELSE 0

\* a jump over two states counted as a clockwise step
RotationCountsJumps(prev_idx, curr_idx) ==
    IF (curr_idx + 1) % 4 = prev_idx THEN 0 - 1 ELSE 1

\* what one changed sample adds to tick_count: -1 for a counter-clockwise
\* step, +1 for a clockwise step, 0 for a jump over two states
Rotation(prev_idx, curr_idx) ==
    IF (curr_idx + 1) % 4 = prev_idx THEN 0 - 1
    ELSE IF (prev_idx + 1) % 4 = curr_idx THEN 1
    ELSE 0

\* RotEnc::new over pins that read (false, false)
RotEnc_new ==
    [state |-> <<FALSE, FALSE>>, tick_count |-> 0,
     reading_start |-> None, ticks |-> U32One]

\* the head of read(): the poll counter advances, restarting at 1
RotEnc_tick(enc) ==
    LET tick == wrapping_add(enc.ticks, 1) IN
    IF tick = U32Zero
    THEN [enc EXCEPT !.ticks = U32One, !.reading_start = None]
    ELSE [enc EXCEPT !.ticks = tick]

\* the threshold test with nothing reset on an event
RotEnc_emit_no_reset(enc, rot) ==
    [ret |-> IF enc.tick_count >= ticks_per_rotation THEN "Clockwise"
             ELSE IF enc.tick_count <= 0 - ticks_per_rotation
             THEN "CounterClockwise" ELSE "None",
     rot |-> rot, enc |-> enc]

\* the tail of read(): the threshold test
RotEnc_emit(enc, rot) ==
    IF enc.tick_count >= ticks_per_rotation
    THEN [ret |-> "Clockwise", rot |-> rot,
          enc |-> [enc EXCEPT !.tick_count = 0, !.reading_start = None]]
    ELSE IF enc.tick_count <= 0 - ticks_per_rotation
    THEN [ret |-> "CounterClockwise", rot |-> rot,
          enc |-> [enc EXCEPT !.tick_count = 0, !.reading_start = None]]
    ELSE [ret |-> "None", rot |-> rot, enc |-> enc]

\* read() from the timeout test on.  start + reading_limit is a plain u32
\* addition: past 2^32 - 1 it panics in a build with overflow checks and
\* wraps in a build without, so both outcomes are returned
RotEnc_timeout(enc, rot) ==
    IF ~enc.reading_start.some THEN {RotEnc_emit(enc, rot)}
    ELSE LET sum == U32Add(enc.reading_start.at, reading_limit)
             abandoned == [enc EXCEPT !.reading_start = None, !.tick_count = 0]
             wrapped == IF U32Le(sum.value, enc.ticks)
                        THEN RotEnc_emit(abandoned, rot)
                        ELSE RotEnc_emit(enc, rot)
         IN  IF sum.overflow
             THEN {[ret |-> "panic", rot |-> rot, enc |-> enc], wrapped}
             ELSE {wrapped}

\* RotEnc::read with read_raw returning Ok(current_state): the set of
\* [ret, rot, enc] it can produce, rot being the step it counted
RotEnc_read(enc0, current_state) ==
    LET enc == RotEnc_tick(enc0)
        previous_state == enc.state
    IN  IF current_state = previous_state
        THEN {[ret |-> "None", rot |-> 0, enc |-> enc]}
        ELSE LET rot == Rotation(Position(previous_state), Position(current_state))
                 counted == [enc EXCEPT
                     !.state = current_state,
                     !.tick_count = @ + rot,
                     !.reading_start = IF rot # 0 /\ ~@.some THEN Some(enc.ticks) ELSE @]
             IN  RotEnc_timeout(counted, rot)

\* RotEnc::read with read_raw returning an error
RotEnc_read_err(enc0) == [ret |-> "Io", rot |-> 0, enc |-> RotEnc_tick(enc0)]

RECURSIVE RotEnc_idle(_, _)
\* n reads in a row that sample the state the decoder already holds
RotEnc_idle(enc, n) ==
    IF n = 0 THEN enc
    ELSE IF n = 1 THEN (CHOOSE r \in RotEnc_read(enc, enc.state) : TRUE).enc
    ELSE Bind(RotEnc_idle(enc, n \div 2),
              LAMBDA half : RotEnc_idle(half, n - (n \div 2)))

(***************************************************************************)
(* clock/raw.rs: the divisor conversions.  An f32 divisor is kept as the   *)
(* integer count of 1/4096; every DIVI + DIVF / 1024 with 12-bit DIVI and  *)
(* DIVF has at most 23 significant bits, so the f32 sum is exact.          *)
(***************************************************************************)
DivisorUnit == 4096
FracScale == 1024
MaxField == 4095
MaxU16 == 65535

Min(a, b) == IF a < b THEN a ELSE b

\* the conversion without its test of the integer part
divisor_to_divi_divf_unchecked(divisor) ==
    [ok |-> TRUE,
     divi |-> Min(divisor \div DivisorUnit, MaxU16),
     divf |-> ((divisor % DivisorUnit) * FracScale) \div DivisorUnit]

\* RawClockDriver::divisor_to_divi_divf, for a divisor >= 0
divisor_to_divi_divf(divisor) ==
    LET int_part == Min(divisor \div DivisorUnit, MaxU16)
        frac_part == ((divisor % DivisorUnit) * FracScale) \div DivisorUnit
    IN  IF int_part > MaxField \/ int_part = 0
        THEN [ok |-> FALSE, divi |-> 0, divf |-> 0]
        ELSE IF frac_part > MaxField
        THEN [ok |-> FALSE, divi |-> 0, divf |-> 0]
        ELSE [ok |-> TRUE, divi |-> int_part, divf |-> frac_part]

\* the inverse conversion with DIVF read as a count of 1/4096
divi_divf_to_divisor_twelve_bit(divi, divf) ==
    IF divi = 0 \/ divi > MaxField \/ divf > MaxField
    THEN [ok |-> FALSE, divisor |-> 0]
    ELSE [ok |-> TRUE, divisor |-> divi * DivisorUnit + divf]

\* RawClockDriver::divi_divf_to_divisor
divi_divf_to_divisor(divi, divf) ==
    IF divi = 0 \/ divi > MaxField \/ divf > MaxField
    THEN [ok |-> FALSE, divisor |-> 0]
    ELSE [ok |-> TRUE,
          divisor |-> divi * DivisorUnit + (divf * DivisorUnit) \div FracScale]

(***************************************************************************)
(* clock/raw.rs: the setters of RawClockDriver over the two words of one   *)
(* clock, CM_CTL and CM_DIV.  clk.wr lists the words the last call wrote.  *)
(***************************************************************************)
CM_CTL == 0
CM_DIV == 1
Password == 90

MashMode == {"None", "Mash1", "Mash2", "Mash3"}
ClockSource == {"Ground", "Oscillator", "TestDebug0", "TestDebug1",
                "PllA", "PllC", "PllD", "HdmiAuxiliary"}

\* MashMode::to_index
MashMode_to_index(mode) ==
    CASE mode = "None" -> 0 [] mode = "Mash1" -> 1
      [] mode = "Mash2" -> 2 [] mode = "Mash3" -> 3

\* ClockSource::to_index
ClockSource_to_index(source) ==
    CASE source = "Ground" -> 0 [] source = "Oscillator" -> 1
      [] source = "TestDebug0" -> 2 [] source = "TestDebug1" -> 3
      [] source = "PllA" -> 4 [] source = "PllC" -> 5
      [] source = "PllD" -> 6 [] source = "HdmiAuxiliary" -> 7

ClkWrite(clk, idx, value) ==
    [regs |-> [clk.regs EXCEPT ![idx] = value],
     wr |-> Append(clk.wr, [idx |-> idx, value |-> value])]

ClkBegin(clk) == [clk EXCEPT !.wr = <<>>]

\* register_value |= 0x5A << 24
WithPassword(register_value) == Or(register_value, Shl(Word(Password), 24))

\* RawClockDriver::set_enabled
set_enabled(clk, enabled) ==
    LET register_value == WithPassword(clk.regs[CM_CTL]) IN
    Done(ClkWrite(clk, CM_CTL,
                  IF enabled THEN Or(register_value, Shl(Word(1), 4))
                  ELSE And(register_value, Not(Shl(Word(1), 4)))))

\* RawClockDriver::set_mash_mode
set_mash_mode(clk, mode) ==
    LET register_value == WithPassword(clk.regs[CM_CTL]) IN
    Done(ClkWrite(clk, CM_CTL,
                  Or(And(register_value, Not(Shl(Word(3), 9))),
                     Shl(Word(MashMode_to_index(mode)), 9))))

\* set_source clearing the low byte instead of the low four bits
set_source_low_byte(clk, source) ==
    LET register_value == WithPassword(clk.regs[CM_CTL]) IN
    Done(ClkWrite(clk, CM_CTL,
                  Or(And(register_value, Not(Word(255))),
                     Word(ClockSource_to_index(source)))))

\* RawClockDriver::set_source
set_source(clk, source) ==
    LET register_value == WithPassword(clk.regs[CM_CTL]) IN
    Done(ClkWrite(clk, CM_CTL,
                  Or(And(register_value, Not(Word(15))),
                     Word(ClockSource_to_index(source)))))

\* RawClockDriver::set_divisor
set_divisor(clk, divisor) ==
    LET pair == divisor_to_divi_divf(divisor) IN
    IF ~pair.ok THEN Fail("InvalidArgument", clk)
    ELSE LET register_value == WithPassword(clk.regs[CM_DIV])
             no_divi == And(register_value, Not(Shl(Word(MaxField), 12)))
             with_divi == Or(no_divi, Shl(Word(pair.divi), 12))
             no_divf == And(with_divi, Not(Word(MaxField)))
         IN  Done(ClkWrite(clk, CM_DIV, Or(no_divf, Word(pair.divf))))

\* RawClockDriver::divisor
RawClockDriver_divisor(clk) ==
    LET register_value == clk.regs[CM_DIV]
        divi == ToNat(And(Shr(register_value, 12), Word(MaxField)))
        divf == ToNat(And(register_value, Word(MaxField)))
    IN  divi_divf_to_divisor(divi, divf)

(***************************************************************************)
(* pilock/notes.rs: a Melody is a sequence of segments [note, dur]; note   *)
(* is "None" for a pause and the name of a MusicalNote otherwise, dur a    *)
(* time::Duration in milliseconds.                                         *)
(***************************************************************************)
RECURSIVE DurationFrom(_, _, _)
\* the fold of duration(), from segment k on
DurationFrom(melody, k, acc) ==
    IF k > Len(melody) THEN acc
    ELSE DurationFrom(melody, k + 1, acc + melody[k].dur)

\* MelodyExt::duration
Melody_duration(melody) == DurationFrom(melody, 1, 0)

RECURSIVE NoteFromClosed(_, _, _, _)
NoteFromClosed(melody, k, elapsed, t) ==
    IF k > Len(melody) THEN "None"
    ELSE IF elapsed + melody[k].dur >= t THEN melody[k].note
    ELSE NoteFromClosed(melody, k + 1, elapsed + melody[k].dur, t)

\* get_note_at with a segment that owns its end instant
Melody_get_note_at_closed(melody, t) ==
    IF t < 0 \/ t > Melody_duration(melody) THEN "None"
    ELSE NoteFromClosed(melody, 1, 0, t)

RECURSIVE NoteFrom(_, _, _, _)
\* the loop of get_note_at, from segment k on
NoteFrom(melody, k, elapsed, t) ==
    IF k > Len(melody) THEN "None"
    ELSE IF elapsed + melody[k].dur > t THEN melody[k].note
    ELSE NoteFrom(melody, k + 1, elapsed + melody[k].dur, t)

\* MelodyExt::get_note_at
Melody_get_note_at(melody, t) ==
    IF t < 0 \/ t > Melody_duration(melody) THEN "None"
    ELSE NoteFrom(melody, 1, 0, t)

(***************************************************************************)
(* pwm/raw.rs: RawPwmDriver over the registers of one PWM chip, a function *)
(* from word index to Word, with the indices written by the last call.     *)
(***************************************************************************)
PWM_PIN_COUNT == 2
PWM_CTL == 0
PWM_RNG == 4
PWM_DAT == 5
PwmStride == 4
SubField == 8
NsPerCycle == 50

PwmWords == {PWM_CTL} \cup {PWM_RNG + PwmStride * c : c \in 0..(PWM_PIN_COUNT - 1)}
                      \cup {PWM_DAT + PwmStride * c : c \in 0..(PWM_PIN_COUNT - 1)}

PwmWrite(pwm, idx, value) ==
    [regs |-> [pwm.regs EXCEPT ![idx] = value], wr |-> pwm.wr \cup {idx}]

PwmBegin(pwm) == [pwm EXCEPT !.wr = {}]

\* a mask over the whole register
ChannelMaskWide(pin_index) == WordBits

\* ((1 << 8) - 1) << shift
ChannelMask(pin_index) == Shl(Word(255), pin_index * SubField)

\* RawPwmDriver::init_channel
\* init_channel setting PWEN and MSEN without clearing the sub-field
init_channel_no_clear(pwm, pin_index) ==
    IF pin_index >= PWM_PIN_COUNT THEN Fail("InvalidArgument", pwm)
    ELSE Done(PwmWrite(pwm, PWM_CTL,
                       Or(pwm.regs[PWM_CTL],
                          Shl(Or(Word(1), Shl(Word(1), 7)), pin_index * SubField))))

init_channel(pwm, pin_index) ==
    IF pin_index >= PWM_PIN_COUNT THEN Fail("InvalidArgument", pwm)
    ELSE Done(PwmWrite(pwm, PWM_CTL,
                       Or(And(pwm.regs[PWM_CTL], Not(ChannelMask(pin_index))),
                          Shl(Or(Word(1), Shl(Word(1), 7)), pin_index * SubField))))

\* RawPwmDriver::get_enabled
get_enabled(pwm, pin_index) ==
    And(pwm.regs[PWM_CTL], Shl(Word(1), pin_index * SubField)) # {}

\* RawPwmDriver::reset_channel
reset_channel(pwm, pin_index) ==
    IF pin_index >= PWM_PIN_COUNT THEN Fail("InvalidArgument", pwm)
    ELSE Done(PwmWrite(pwm, PWM_CTL,
                       And(pwm.regs[PWM_CTL], Not(ChannelMask(pin_index)))))

\* RawPwmDriver::set_period
set_period(pwm, pin_index, period) ==
    IF pin_index >= PWM_PIN_COUNT THEN Fail("InvalidArgument", pwm)
    ELSE Done(PwmWrite(pwm, PWM_RNG + PwmStride * pin_index, U32Word(period)))

\* RawPwmDriver::set_duty
set_duty(pwm, pin_index, duty) ==
    IF pin_index >= PWM_PIN_COUNT THEN Fail("InvalidArgument", pwm)
    ELSE Done(PwmWrite(pwm, PWM_DAT + PwmStride * pin_index, U32Word(duty)))

\* RawPwmDriver::get_period
get_period(pwm, pin_index) ==
    IF pin_index >= PWM_PIN_COUNT THEN [res |-> "InvalidArgument", val |-> U32Zero]
    ELSE [res |-> "Ok", val |-> WordU32(pwm.regs[PWM_RNG + PwmStride * pin_index])]

\* RawPwmDriver::get_duty
get_duty(pwm, pin_index) ==
    IF pin_index >= PWM_PIN_COUNT THEN [res |-> "InvalidArgument", val |-> U32Zero]
    ELSE [res |-> "Ok", val |-> WordU32(pwm.regs[PWM_DAT + PwmStride * pin_index])]

\* .map(|v| v * 50): the outcomes of the u32 product.  A product beyond
\* u32 panics where overflow checks are compiled in and wraps where not.
CyclesToNs(r) ==
    IF r.res # "Ok" THEN {r}
    ELSE LET m == U32Mul(r.val, NsPerCycle)
         IN  IF m.overflow
             THEN {[res |-> "panic", val |-> U32Zero], [res |-> "Ok", val |-> m.value]}
             ELSE {[res |-> "Ok", val |-> m.value]}

\* RawPwmPin::period_ns
period_ns(pwm, pin_index) == CyclesToNs(get_period(pwm, pin_index))

\* set_period_ns without the division by 50
set_period_ns_unscaled(pwm, pin_index, ns) ==
    set_period(pwm, pin_index, ns)

\* RawPwmPin::set_period_ns
set_period_ns(pwm, pin_index, ns) ==
    set_period(pwm, pin_index, U32Div(ns, NsPerCycle))

\* RawPwmPin::duty_ns
duty_ns(pwm, pin_index) == CyclesToNs(get_duty(pwm, pin_index))

\* RawPwmPin::set_duty_ns
set_duty_ns(pwm, pin_index, ns) ==
    set_duty(pwm, pin_index, U32Div(ns, NsPerCycle))

PwmPolarity == {"Normal", "Inversed"}

\* RawPwmPin::polarity
polarity(pwm, pin_index) == "Normal"

\* RawPwmPin::set_polarity: todo!() panics
set_polarity(pwm, pin_index, new_polarity) == [res |-> "panic", hw |-> pwm]

(***************************************************************************)
(* lib.rs, raw.rs, gpiod.rs, soft.rs: the three optional settings of a pin *)
(* and of a SoftGpioBus made of pins.  A pin is its backend and the value  *)
(* it stores for each setting.                                             *)
(***************************************************************************)
Caps == {"active_level", "bias", "drive_mode"}

\* what the default methods of trait GpioPin / GpioBus return
CapDefault == [active_level |-> "High", bias |-> "None", drive_mode |-> "PushPull"]

\* RawGpioPin, GpiodPin, and a pin that overrides none of the defaults
PinBackends == {"Raw", "Gpiod", "Default"}

\* pin.supports_active_level() / supports_bias() / supports_drive_mode()
Pin_supports(pin, cap) ==
    CASE pin.kind = "Raw"     -> TRUE
      [] pin.kind = "Gpiod"   -> cap \in {"active_level", "bias"}
      [] pin.kind = "Default" -> FALSE

\* pin.active_level() / bias() / drive_mode()
Pin_get(pin, cap) ==
    IF Pin_supports(pin, cap) THEN pin.val[cap] ELSE CapDefault[cap]

\* pin.set_active_level(v) / set_bias(v) / set_drive_mode(v)
Pin_set(pin, cap, v) ==
    IF Pin_supports(pin, cap)
    THEN [res |-> "Ok", pin |-> [pin EXCEPT !.val[cap] = v]]
    ELSE [res |-> "NotSupported", pin |-> pin]

\* SoftGpioBus::supports_*: self.pins.iter().all(|pin| pin.supports_*())
Soft_supports(pins, cap) == \A k \in 1..Len(pins) : Pin_supports(pins[k], cap)

\* SoftGpioBus::active_level / bias / drive_mode: self.pins[0]'s
Soft_get(pins, cap) == Pin_get(pins[1], cap)

RECURSIVE SoftSetFrom(_, _, _, _)
\* the loop of a SoftGpioBus setter, from position k on
SoftSetFrom(pins, cap, v, k) ==
    IF k > Len(pins) THEN [res |-> "Ok", pins |-> pins]
    ELSE Bind(Pin_set(pins[k], cap, v), LAMBDA r :
              IF r.res # "Ok" THEN [res |-> r.res, pins |-> pins]
              ELSE SoftSetFrom([pins EXCEPT ![k] = r.pin], cap, v, k + 1))

\* SoftGpioBus::set_active_level / set_bias / set_drive_mode
Soft_set(pins, cap, v) ==
    IF ~Soft_supports(pins, cap) THEN [res |-> "NotSupported", pins |-> pins]
    ELSE SoftSetFrom(pins, cap, v, 1)

(***************************************************************************)
(* pilock/app.rs: App and its update().  An App is a record of the fields  *)
(* of the struct that update() reads or writes: the state with the input   *)
(* of Locked (digits 0 .. 9) and the remaining time of Unlocked (ms), the  *)
(* password and unlock time of the configuration, and the audio state as   *)
(* the melody started and the time played.  What update() sends to the     *)
(* buzzer and the display is left out but for whether the calls succeed.   *)
(* An update returns [res, app].                                           *)
(***************************************************************************)
STATE_RELEASED == 2
STATE_PRESSED == 1

NoAudio == [some |-> FALSE, melody |-> "none", elapsed |-> 0]

\* the duration() of the melodies built by start_unlock_melody,
\* start_fail_melody and start_megalovania, in ms
MelodyMs(melody) ==
    CASE melody = "unlock" -> 1300
      [] melody = "fail" -> 4400
      [] melody = "megalovania" -> 152100

\* App::new
App_new(password, unlock_seconds) ==
    [password |-> password, unlock_seconds |-> unlock_seconds,
     state |-> "Starting", input |-> <<>>, remaining |-> 0,
     easy_access |-> FALSE, prev_ok_state |-> FALSE, audio_state |-> NoAudio]

\* App::start_melody
start_melody(app, melody) ==
    [app EXCEPT !.audio_state = [some |-> TRUE, melody |-> melody, elapsed |-> 0]]

\* App::update_audio: a failed call of the PWM pin returns before the audio
\* state is written
update_audio(app, time_elapsed, pwm_ok) ==
    IF ~app.audio_state.some \/ ~pwm_ok THEN app
    ELSE IF app.audio_state.elapsed >= MelodyMs(app.audio_state.melody)
    THEN [app EXCEPT !.audio_state = NoAudio]
    ELSE [app EXCEPT !.audio_state.elapsed = @ + time_elapsed]

\* self.state = AppState::Unlocked { remaining: unlock_seconds }
Unlocked(app) ==
    [app EXCEPT !.state = "Unlocked", !.input = <<>>,
                !.remaining = app.unlock_seconds * 1000]

\* self.state = AppState::Locked { input: Vec::new() }
Locked(app) ==
    [app EXCEPT !.state = "Locked", !.input = <<>>, !.remaining = 0]

\* self.state = AppState::LockedInEasyAccess
LockedInEasyAccess(app) ==
    [app EXCEPT !.state = "LockedInEasyAccess", !.input = <<>>, !.remaining = 0]

\* self.state.draw(self.lcd)?
Drawn(app, lcd_ok) == [res |-> IF lcd_ok THEN "Ok" ELSE "Error", app |-> app]

\* Duration::whole_seconds
whole_seconds(ms) == IF ms >= 0 THEN ms \div 1000 ELSE 0 - ((0 - ms) \div 1000)

\* the Locked arm in which every entry of full length unlocks
AppLockedAnyPin(app, rotation, ok_state, forced_unlock, lcd_ok) ==
    IF forced_unlock
    THEN Drawn(start_melody(Unlocked(app), "unlock"), lcd_ok)
    ELSE IF rotation # "None"
    THEN LET rot == IF rotation = "Clockwise" THEN 1 ELSE 0 - 1
             input == app.input
         IN  Drawn([app EXCEPT !.input =
                        IF Len(input) < 1 THEN Append(input, 0)
                        ELSE [input EXCEPT ![Len(input)] = (@ + rot + 10) % 10]],
                   lcd_ok)
    ELSE IF ok_state = STATE_PRESSED
    THEN IF Len(app.input) >= Len(app.password)
         THEN Drawn(start_melody(Unlocked(app), "unlock"), lcd_ok)
         ELSE Drawn([app EXCEPT !.input = Append(@, 0)], lcd_ok)
    ELSE [res |-> "Ok", app |-> app]

\* update(), the arm AppState::Locked { input }
AppLocked(app, rotation, ok_state, forced_unlock, lcd_ok) ==
    IF forced_unlock
    THEN Drawn(start_melody(Unlocked(app), "unlock"), lcd_ok)
    ELSE IF rotation # "None"
    THEN LET rot == IF rotation = "Clockwise" THEN 1 ELSE 0 - 1
             input == app.input
         IN  Drawn([app EXCEPT !.input =
                        IF Len(input) < 1 THEN Append(input, 0)
                        ELSE [input EXCEPT ![Len(input)] = (@ + rot + 10) % 10]],
                   lcd_ok)
    ELSE IF ok_state = STATE_PRESSED
    THEN IF Len(app.input) >= Len(app.password)
         THEN IF app.input = app.password
              THEN Drawn(start_melody(Unlocked(app), "unlock"), lcd_ok)
              ELSE Drawn(start_melody(Locked(app),
                                      IF app.input = <<0, 9, 1, 5>>
                                      THEN "megalovania" ELSE "fail"),
                         lcd_ok)
         ELSE Drawn([app EXCEPT !.input = Append(@, 0)], lcd_ok)
    ELSE [res |-> "Ok", app |-> app]

\* the Unlocked arm with the time left as it was
AppUnlockedHeld(app, elapsed, lcd_ok) == [res |-> "Ok", app |-> app]

\* update(), the arm AppState::Unlocked { remaining }
AppUnlocked(app, elapsed, lcd_ok) ==
    LET prev_sec == whole_seconds(app.remaining)
        remaining == app.remaining - elapsed
        now_sec == whole_seconds(remaining)
    IN  IF remaining < 0
        THEN Drawn(IF app.easy_access THEN LockedInEasyAccess(app)
                   ELSE Locked(app), lcd_ok)
        ELSE IF prev_sec # now_sec
        THEN Drawn([app EXCEPT !.remaining = remaining], lcd_ok)
        ELSE [res |-> "Ok", app |-> [app EXCEPT !.remaining = remaining]]

\* update(), the arm AppState::LockedInEasyAccess
AppEasyAccess(app, ok_state, forced_unlock, lcd_ok) ==
    IF forced_unlock
    THEN Drawn(start_melody(Unlocked(app), "unlock"), lcd_ok)
    ELSE IF ok_state = STATE_RELEASED
    THEN Drawn(Unlocked(app), lcd_ok)
    ELSE [res |-> "Ok", app |-> app]

\* the inputs of an update: what encoder.read() returns, what ok_btn and
\* forced_unlock_pin read, last_update.elapsed() in ms, and fault: the call
\* that fails in this update, if any
Faults == {"none", "encoder", "ok_btn", "forced_unlock_pin", "audio_pwm", "lcd"}

\* App::update
App_update(app, rotation, ok_pressed, elapsed, forced_unlock, fault) ==
    IF fault \in {"encoder", "ok_btn"} THEN [res |-> "Error", app |-> app]
    ELSE
    LET ok_state == IF app.prev_ok_state /\ ~ok_pressed THEN STATE_RELEASED
                    ELSE IF ~app.prev_ok_state /\ ok_pressed THEN STATE_PRESSED
                    ELSE 0
        played == update_audio([app EXCEPT !.prev_ok_state = ok_pressed],
                               elapsed, fault # "audio_pwm")
        lcd_ok == fault # "lcd"
    IN  IF fault = "forced_unlock_pin" THEN [res |-> "Error", app |-> played]
        ELSE IF played.state = "Starting"
        THEN Drawn(IF played.easy_access THEN LockedInEasyAccess(played)
                   ELSE Locked(played), lcd_ok)
        ELSE IF played.state = "LockedInEasyAccess" /\ ~played.easy_access
        THEN Drawn(Locked(played), lcd_ok)
        ELSE IF played.state = "Locked" /\ played.easy_access
        THEN Drawn(LockedInEasyAccess(played), lcd_ok)
        ELSE IF played.state = "LockedInEasyAccess"
        THEN AppEasyAccess(played, ok_state, forced_unlock, lcd_ok)
        ELSE IF played.state = "Locked"
        THEN AppLocked(played, rotation, ok_state, forced_unlock, lcd_ok)
        ELSE AppUnlocked(played, elapsed, lcd_ok)

(***************************************************************************)
(* State.                                                                  *)
(***************************************************************************)
VARIABLES
    used_pins,   \* RawGpioDriver.used_pins
    hw,          \* the GPIO register block behind RawGpioDriver.mmap
    handles,     \* the live RawGpioPin / RawGpioBus values
    g_last,      \* the last driver call: what was asked and the result
    thr,         \* per thread: where it is in a driver call, and its handle
    rel,         \* SpecRelease: the indices released and allocated, and the
                 \* indices other handles hold meanwhile
    nib,         \* the last nibble written to a bus whose lines nothing has
                 \* driven since, with the policies it was written under
    db,          \* TimedDebounce: state and changed_since
    db_now,      \* the clock behind Instant::now(), in milliseconds
    db_ret,      \* what the last TimedDebounce::read returned
    db_hold,     \* the last start of the hold timer: the instant, and the
                 \* stable value at that instant
    db_log,      \* the successful reads so far: delay, sample, value returned
    re,          \* RotEnc: state, tick_count, reading_start, ticks
    re_ret,      \* what the last RotEnc::read returned
    re_log,      \* the successful reads so far: sample, step counted, event
    re_start,    \* the poll counter the decoder had before the first read
    cv,          \* a divisor conversion: the input, the stage, the output
    pwm,         \* the PWM registers behind RawPwmDriver.mmap
    pwm_used,    \* RawPwmDriver.used_pins
    pwm_last,    \* the last call of the PWM driver and its result
    pwm_pins,    \* the channels a live RawPwmPin stands for
    pwm_ret,     \* the u32 or bool the last call of a RawPwmPin returned, 0 if none
    clk,         \* the CM_CTL / CM_DIV words behind RawClockDriver.mmap
    clk_last,    \* the last call of the clock driver and its result
    clk_ret,     \* what the last RawClockDriver::divisor returned
    sb,          \* the pins given to a SoftGpioBus, and whether it is alive
    sb_last,     \* the last getter or setter call on them and its result
    ml,          \* a Melody: its segments in order
    ml_last,     \* the last call on the melody and its result
    app,         \* an App
    app_last     \* the inputs of the last App::update and what it returned

gpio_vars == <<used_pins, hw, handles, g_last>>
thread_vars == <<thr, rel>>

db_vars == <<db, db_now, db_ret, db_hold, db_log>>
re_vars == <<re, re_ret, re_log, re_start>>
cv_vars == <<cv>>
pwm_vars == <<pwm, pwm_used, pwm_last, pwm_pins, pwm_ret>>
clk_vars == <<clk, clk_last, clk_ret>>
sb_vars == <<sb, sb_last>>
ml_vars == <<ml, ml_last>>
app_vars == <<app, app_last>>

vars == <<used_pins, hw, handles, g_last, thr, rel, nib,
          db, db_now, db_ret, db_hold, db_log, re, re_ret, re_log, re_start,
          cv, pwm, pwm_used, pwm_last, pwm_pins, pwm_ret, clk, clk_last, clk_ret,
          sb, sb_last, ml, ml_last, app, app_last>>

\* what the calls of one component leave alone
gpio_frame == <<thr, rel, db_vars, re_vars, cv_vars, pwm_vars, clk_vars, sb_vars, ml_vars, app_vars>>
thread_frame == <<nib, db_vars, re_vars, cv_vars, pwm_vars, clk_vars, sb_vars, ml_vars, app_vars>>
db_frame == <<gpio_vars, thread_vars, nib, re_vars, cv_vars, pwm_vars, clk_vars, sb_vars, ml_vars, app_vars>>
re_frame == <<gpio_vars, thread_vars, nib, db_vars, cv_vars, pwm_vars, clk_vars, sb_vars, ml_vars, app_vars>>
cv_frame == <<gpio_vars, thread_vars, nib, db_vars, re_vars, pwm_vars, clk_vars, sb_vars, ml_vars, app_vars>>
pwm_frame == <<gpio_vars, thread_vars, nib, db_vars, re_vars, cv_vars, clk_vars, sb_vars, ml_vars, app_vars>>
clk_frame == <<gpio_vars, thread_vars, nib, db_vars, re_vars, cv_vars, pwm_vars, sb_vars, ml_vars, app_vars>>
ml_frame == <<gpio_vars, thread_vars, nib, db_vars, re_vars, cv_vars, pwm_vars,
              clk_vars, sb_vars, app_vars>>
app_frame == <<gpio_vars, thread_vars, nib, db_vars, re_vars, cv_vars, pwm_vars,
               clk_vars, sb_vars, ml_vars>>
sb_frame == <<gpio_vars, thread_vars, nib, db_vars, re_vars, cv_vars, pwm_vars, clk_vars, ml_vars, app_vars>>

\* how many handles are alive at once
MaxHandles == 2


\* a handle as get_pin / get_pin_bus returns it
NewPin(index) ==
    [kind |-> "pin", pins |-> <<index>>, active_level |-> "High",
     drive_mode |-> "PushPull", view |-> "none"]
NewBus(indices) ==
    [kind |-> "bus", pins |-> indices, active_level |-> "High",
     drive_mode |-> "PushPull", view |-> "none"]

Range(s) == {s[k] : k \in 1..Len(s)}

\* the indices held by the live handles
Held(hs) == UNION {Range(h.pins) : h \in hs}
\* the live handles that hold index i
Holders(hs, i) == {h \in hs : i \in Range(h.pins)}

\* the indices the calls are made with: the last bit of one element of
\* used_pins and the first of the next, two pins of one function-select
\* word, the last pin, and indices past the range
PinChoices == {7, 8, 9, 57, 58}
ValidPins == {i \in PinChoices : i < PIN_COUNT}
BusRequests == {<<a, b>> : a \in {7, 8, 58}, b \in {8, 9, 57, 63}}

\* register images found in the block when the driver maps it
ZeroBlock ==
    [fsel |-> [n \in 0..5 |-> {}], out |-> [n \in 0..1 |-> {}],
     pud |-> [n \in 0..3 |-> {}], pad |-> [n \in 0..1 |-> {}], wr |-> {}]
UsedBlock ==
    [fsel |-> [n \in 0..5 |-> Word(153391689)],
     out |-> [n \in 0..1 |-> Word(1431655765)],
     pud |-> [n \in 0..3 |-> Word(1717986918)],
     pad |-> Settle([n \in 0..5 |-> Word(153391689)],
                    [n \in 0..1 |-> Word(1431655765)],
                    [n \in 0..1 |-> {}], 0..(PIN_COUNT - 1)),
     wr |-> {}]
InitBlocks == {ZeroBlock, UsedBlock}

NoCall == [op |-> "none", req |-> <<>>, res |-> "Ok"]
NoDivisor == [ok |-> FALSE, divisor |-> 0]
Call(op, req, res) == [op |-> op, req |-> req, res |-> res]

NoHandle == [kind |-> "none", pins |-> <<>>]
Threads == {"A", "B"}
Idle == [pc |-> "idle", req |-> <<>>, k |-> 0, held |-> NoHandle, res |-> "none"]
NoRelease == [i |-> 0, j |-> 0, others |-> {}]

ThreadsIdle ==
    /\ thr = [t \in Threads |-> Idle]
    /\ rel = NoRelease

NoNibble == [valid |-> FALSE, value |-> 0, level |-> "High", mode |-> "PushPull"]

\* the state of each component before anything is done with it
GpioIdle ==
    /\ used_pins = NoPinsUsed
    /\ hw = ZeroBlock
    /\ handles = {}
    /\ g_last = NoCall
    /\ nib = NoNibble
    /\ ThreadsIdle

NoHold == [active |-> FALSE, s |-> FALSE, start |-> 0]

DbIdle ==
    /\ db = TimedDebounce_new
    /\ db_now = 0
    /\ db_ret = [ok |-> TRUE, value |-> FALSE]
    /\ db_hold = NoHold
    /\ db_log = <<>>

ReIdle ==
    /\ re = RotEnc_new
    /\ re_ret = "none"
    /\ re_log = <<>>
    /\ re_start = U32One

NoPair == [ok |-> FALSE, divi |-> 0, divf |-> 0]

CvIdle ==
    cv = [stage |-> "none", given |-> "none", divi |-> 0, divf |-> 0,
          divisor |-> 0, out |-> NoPair]

PwmIdle ==
    /\ pwm = [regs |-> [w \in PwmWords |-> {}], wr |-> {}]
    /\ pwm_used = {}
    /\ pwm_pins = {}
    /\ pwm_ret = U32Zero
    /\ pwm_last = NoCall

ClkIdle ==
    /\ clk = [regs |-> [w \in {CM_CTL, CM_DIV} |-> {}], wr |-> <<>>]
    /\ clk_last = NoCall
    /\ clk_ret = NoDivisor

SbIdle ==
    /\ sb = [pins |-> <<>>, bus |-> FALSE]
    /\ sb_last = NoCall

MlIdle ==
    /\ ml = <<>>
    /\ ml_last = NoCall

NoUpdate ==
    [rotation |-> "None", forced_unlock |-> FALSE, elapsed |-> 0, res |-> "Ok"]

AppIdle ==
    /\ app = App_new(<<>>, 1)
    /\ app_last = NoUpdate

RestIdle ==
    DbIdle /\ ReIdle /\ CvIdle /\ PwmIdle /\ ClkIdle /\ SbIdle /\ MlIdle /\ AppIdle

GpioInit ==
    /\ RestIdle
    /\ used_pins = NoPinsUsed
    /\ hw \in InitBlocks
    /\ handles = {}
    /\ g_last = NoCall
    /\ nib = NoNibble
    /\ ThreadsIdle

\* driver.get_pin(index)
GetPin(index) ==
    \E r \in {get_pin(used_pins, BeginCall(hw), index)} :
    /\ used_pins' = r.used
    /\ hw' = r.hw
    /\ g_last' = Call("get_pin", <<index>>, r.res)
    /\ r.res = "Ok" => Cardinality(handles) < MaxHandles
    /\ handles' = IF r.res = "Ok" THEN handles \cup {NewPin(index)} ELSE handles
    /\ nib' = NoNibble
    /\ UNCHANGED gpio_frame

\* driver.get_pin_bus(indices)
GetPinBus(indices) ==
    \E r \in {get_pin_bus(used_pins, BeginCall(hw), indices)} :
    /\ used_pins' = r.used
    /\ hw' = r.hw
    /\ g_last' = Call("get_pin_bus", indices, r.res)
    /\ r.res = "Ok" => Cardinality(handles) < MaxHandles
    /\ handles' = IF r.res = "Ok" THEN handles \cup {NewBus(indices)} ELSE handles
    /\ nib' = NoNibble
    /\ UNCHANGED gpio_frame

\* a RawGpioPin goes out of scope
DropPin(h) ==
    /\ h.kind = "pin"
    /\ \E r \in {drop_pin(used_pins, BeginCall(hw), h.pins[1])} :
       /\ used_pins' = r.used
       /\ hw' = r.hw
    /\ g_last' = Call("drop_pin", h, "Ok")
    /\ handles' = handles \ {h}
    /\ nib' = NoNibble
    /\ UNCHANGED gpio_frame

\* a RawGpioBus goes out of scope
DropBus(h) ==
    /\ h.kind = "bus"
    /\ \E r \in {drop_bus(used_pins, BeginCall(hw), h.pins)} :
       /\ used_pins' = r.used
       /\ hw' = r.hw
    /\ g_last' = Call("drop_bus", h, "Ok")
    /\ handles' = handles \ {h}
    /\ nib' = NoNibble
    /\ UNCHANGED gpio_frame

Next ==
    \/ \E i \in PinChoices : GetPin(i)
    \/ \E q \in BusRequests : GetPinBus(q)
    \/ \E h \in handles : DropPin(h)
    \/ \E h \in handles : DropBus(h)

Spec == GpioInit /\ [][Next]_vars

(***************************************************************************)
(* raw.rs, lib.rs: a RawGpioBus, its input and output views and the        *)
(* nibble helpers of a 4-wide bus.  A view borrows the bus: while one is   *)
(* alive (view # "none") no setter of the bus can be called.               *)
(***************************************************************************)
Replace(h, h2) == handles' = (handles \ {h}) \cup {h2}

\* bus.as_input()
BusAsInput(h) ==
    /\ h.kind = "bus" /\ h.view = "none"
    /\ \E r \in {SetFunctions(BeginCall(hw), h.pins, 0, 1)} :
          /\ hw' = r.hw
          /\ g_last' = Call("as_input", h.pins, r.res)
    /\ Replace(h, [h EXCEPT !.view = "input"])
    /\ UNCHANGED <<used_pins, nib, gpio_frame>>

\* bus.as_output()
BusAsOutput(h) ==
    /\ h.kind = "bus" /\ h.view = "none"
    /\ \E r \in {SetFunctions(BeginCall(hw), h.pins, 1, 1)} :
          /\ hw' = r.hw
          /\ g_last' = Call("as_output", h.pins, r.res)
    /\ Replace(h, [h EXCEPT !.view = "output"])
    /\ nib' = NoNibble
    /\ UNCHANGED <<used_pins, gpio_frame>>

\* the view of a bus goes out of scope
DropView(h) ==
    /\ h.kind = "bus" /\ h.view # "none"
    /\ Replace(h, [h EXCEPT !.view = "none"])
    /\ g_last' = Call("drop_view", h.pins, "Ok")
    /\ hw' = BeginCall(hw)
    /\ UNCHANGED <<used_pins, nib, gpio_frame>>

\* bus.set_active_level(level)
BusSetActiveLevel(h, level) ==
    /\ h.kind = "bus" /\ h.view = "none"
    /\ Replace(h, [h EXCEPT !.active_level = level])
    /\ g_last' = Call("set_active_level", h.pins, "Ok")
    /\ hw' = BeginCall(hw)
    /\ UNCHANGED <<used_pins, nib, gpio_frame>>

\* bus.set_drive_mode(mode)
BusSetDriveMode(h, mode) ==
    /\ h.kind = "bus" /\ h.view = "none"
    /\ \E r \in {DriveAll(BeginCall(hw), h.pins, FALSE, mode, 1)} :
          /\ hw' = r.hw
          /\ g_last' = Call("set_drive_mode", h.pins, r.res)
    /\ Replace(h, [h EXCEPT !.drive_mode = mode])
    /\ nib' = NoNibble
    /\ UNCHANGED <<used_pins, gpio_frame>>

\* output.write_nibble(value)
BusWriteNibble(h, value) ==
    /\ h.kind = "bus" /\ h.view = "output" /\ Len(h.pins) = 4
    /\ \E r \in {write_nibble(BeginCall(hw), h, value)} :
          /\ hw' = r.hw
          /\ g_last' = Call("write_nibble", <<value>>, r.res)
          /\ nib' = IF r.res = "Ok"
                    THEN [valid |-> TRUE, value |-> value,
                          level |-> h.active_level, mode |-> h.drive_mode]
                    ELSE nib
    /\ UNCHANGED <<used_pins, handles, gpio_frame>>

\* input.read_nibble()
BusReadNibble(h) ==
    /\ h.kind = "bus" /\ h.view = "input" /\ Len(h.pins) = 4
    /\ g_last' = Call("read_nibble", h.pins, read_nibble(hw, h))
    /\ hw' = BeginCall(hw)
    /\ UNCHANGED <<used_pins, handles, nib, gpio_frame>>

\* something outside the chip drives the line of a pin that is not in
\* output function
ExtDrive(pin, level) ==
    /\ ~IsOutput(hw.fsel, pin)
    /\ hw' = [hw EXCEPT !.wr = {},
                        !.pad[pin \div 32] =
                            IF level THEN @ \cup {pin % 32} ELSE @ \ {pin % 32}]
    /\ hw' # hw
    /\ g_last' = Call("ext_drive", <<pin>>, "Ok")
    /\ nib' = NoNibble
    /\ UNCHANGED <<used_pins, handles, gpio_frame>>

\* the 4-wide buses leased, and the nibbles written
NibbleBuses == {<<7, 8, 9, 57>>}
NibbleChoices == {0, 1, 6, 10, 15, 16, 255}
\* the lines of a bus something outside drives
DrivenLines == {2, 4}

BusNext ==
    \/ \E q \in NibbleBuses : GetPinBus(q)
    \/ \E h \in handles : DropBus(h)
    \/ \E h \in handles : BusAsInput(h)
    \/ \E h \in handles : BusAsOutput(h)
    \/ \E h \in handles : DropView(h)
    \/ \E h \in handles : \E l \in GpioActiveLevel : BusSetActiveLevel(h, l)
    \/ \E h \in handles : \E m \in GpioDriveMode : BusSetDriveMode(h, m)
    \/ \E h \in handles : \E v \in NibbleChoices : BusWriteNibble(h, v)
    \/ \E h \in handles : BusReadNibble(h)
    \/ \E q \in NibbleBuses : \E k \in DrivenLines : \E l \in BOOLEAN : ExtDrive(q[k], l)

BusInit ==
    /\ RestIdle
    /\ used_pins = NoPinsUsed
    /\ hw = ZeroBlock
    /\ handles = {}
    /\ g_last = NoCall
    /\ nib = NoNibble
    /\ ThreadsIdle

SpecBus == BusInit /\ [][BusNext]_vars

(***************************************************************************)
(* raw.rs: a RawGpioPin and its input and output views (SpecPin).  A view  *)
(* borrows the pin: while one is alive no setter of the pin can be called. *)
(***************************************************************************)
\* pin.as_input()
PinAsInput(h) ==
    /\ h.kind = "pin" /\ h.view = "none"
    /\ \E r \in {raw_set_pin_function(BeginCall(hw), h.pins[1], 0)} :
          /\ hw' = r.hw
          /\ g_last' = Call("as_input", h, r.res)
    /\ Replace(h, [h EXCEPT !.view = "input"])
    /\ UNCHANGED <<used_pins, nib, gpio_frame>>

\* pin.as_output()
PinAsOutput(h) ==
    /\ h.kind = "pin" /\ h.view = "none"
    /\ \E r \in {raw_set_pin_function(BeginCall(hw), h.pins[1], 1)} :
          /\ hw' = r.hw
          /\ g_last' = Call("as_output", h, r.res)
    /\ Replace(h, [h EXCEPT !.view = "output"])
    /\ UNCHANGED <<used_pins, nib, gpio_frame>>

\* the view of a pin goes out of scope
PinDropView(h) ==
    /\ h.kind = "pin" /\ h.view # "none"
    /\ Replace(h, [h EXCEPT !.view = "none"])
    /\ g_last' = Call("drop_view", h, "Ok")
    /\ hw' = BeginCall(hw)
    /\ UNCHANGED <<used_pins, nib, gpio_frame>>

\* pin.set_active_level(level)
PinSetActiveLevel(h, level) ==
    /\ h.kind = "pin" /\ h.view = "none"
    /\ Replace(h, [h EXCEPT !.active_level = level])
    /\ g_last' = Call("set_active_level", h, "Ok")
    /\ hw' = BeginCall(hw)
    /\ UNCHANGED <<used_pins, nib, gpio_frame>>

\* pin.set_bias(bias)
PinSetBias(h, bias) ==
    /\ h.kind = "pin" /\ h.view = "none"
    /\ \E r \in {raw_set_bias(BeginCall(hw), h.pins[1], bias)} :
          /\ hw' = r.hw
          /\ g_last' = Call("set_bias", h, r.res)
    /\ UNCHANGED <<used_pins, handles, nib, gpio_frame>>

\* pin.set_drive_mode(mode): the mode is stored, nothing is driven
PinSetDriveMode(h, mode) ==
    /\ h.kind = "pin" /\ h.view = "none"
    /\ Replace(h, [h EXCEPT !.drive_mode = mode])
    /\ g_last' = Call("set_drive_mode", h, "Ok")
    /\ hw' = BeginCall(hw)
    /\ UNCHANGED <<used_pins, nib, gpio_frame>>

\* output.write(value)
PinWrite(h, value) ==
    /\ h.kind = "pin" /\ h.view = "output"
    /\ \E r \in {drive_pin(BeginCall(hw), h.pins[1],
                            ActiveLevel_get_state(h.active_level, value),
                            h.drive_mode)} :
          /\ hw' = r.hw
          /\ g_last' = Call("write", [pin |-> h, value |-> value], r.res)
    /\ UNCHANGED <<used_pins, handles, nib, gpio_frame>>

\* input.read()
PinRead(h) ==
    /\ h.kind = "pin" /\ h.view = "input"
    /\ g_last' = Call("read", h,
                      ActiveLevel_get_state(h.active_level,
                                            raw_get_pin_level(hw, h.pins[1])))
    /\ hw' = BeginCall(hw)
    /\ UNCHANGED <<used_pins, handles, nib, gpio_frame>>

\* the pin leased
SinglePins == {8}

PinNext ==
    \/ \E i \in SinglePins : GetPin(i)
    \/ \E h \in handles : DropPin(h)
    \/ \E h \in handles : PinAsInput(h)
    \/ \E h \in handles : PinAsOutput(h)
    \/ \E h \in handles : PinDropView(h)
    \/ \E h \in handles : \E l \in GpioActiveLevel : PinSetActiveLevel(h, l)
    \/ \E h \in handles : \E b \in GpioBias : PinSetBias(h, b)
    \/ \E h \in handles : \E m \in GpioDriveMode : PinSetDriveMode(h, m)
    \/ \E h \in handles : \E v \in BOOLEAN : PinWrite(h, v)
    \/ \E h \in handles : PinRead(h)

SpecPin == GpioInit /\ [][PinNext]_vars

(***************************************************************************)
(* A TimedDebounce polled over an input (SpecDebounce).                    *)
(***************************************************************************)
MaxDbReads == 4
DtChoices == {10, 50, 60}

\* one poll, dt milliseconds after the one before, the input reading sample
DbRead(dt, sample) ==
    /\ Len(db_log) < MaxDbReads
    /\ db_now' = db_now + dt
    /\ \E r \in {TimedDebounce_read(db, db_now + dt, sample)} :
          /\ db' = r.db
          /\ db_ret' = [ok |-> TRUE, value |-> r.ret]
          /\ db_hold' = IF r.started
                        THEN [active |-> TRUE, s |-> db.state, start |-> db_now + dt]
                        ELSE db_hold
          /\ db_log' = Append(db_log, [dt |-> dt, sample |-> sample, ret |-> r.ret])
    /\ UNCHANGED db_frame

\* a failing poll that gives the hold timer up
DbReadErrClearsTimer(dt) ==
    /\ Len(db_log) < MaxDbReads
    /\ db_ret.ok
    /\ db_now' = db_now + dt
    /\ db_ret' = [ok |-> FALSE, value |-> FALSE]
    /\ db' = [db EXCEPT !.changed_since = None]
    /\ UNCHANGED <<db_hold, db_log, db_frame>>

\* one poll at which the input fails: read returns the error at the `?`
DbReadErr(dt) ==
    /\ Len(db_log) < MaxDbReads
    /\ db_ret.ok
    /\ db_now' = db_now + dt
    /\ db_ret' = [ok |-> FALSE, value |-> FALSE]
    /\ UNCHANGED <<db, db_hold, db_log, db_frame>>

DebounceNext ==
    \/ \E dt \in DtChoices : \E sample \in BOOLEAN : DbRead(dt, sample)
    \/ \E dt \in DtChoices : DbReadErr(dt)

DebounceInit == GpioIdle /\ RestIdle

SpecDebounce == DebounceInit /\ [][DebounceNext]_vars

(***************************************************************************)
(* The same TimedDebounce once its input has stopped changing              *)
(* (SpecDebounceLive): after LivePrefix reads of any samples the input     *)
(* keeps the sample of the last of them, and the polls go on, each some    *)
(* milliseconds after the one before, until the instant SettleUntil.       *)
(***************************************************************************)
LivePrefix == 2
SettleUntil == 500

\* the input has stopped changing, and the value it keeps
Steady == Len(db_log) = LivePrefix
SteadyValue == db_log[LivePrefix].sample

\* the polls before that
DbPrefixRead(dt, sample) == ~Steady /\ DbRead(dt, sample)
DbPrefixReadErr(dt) == ~Steady /\ DbReadErr(dt)

\* one poll of the steady input, dt milliseconds after the one before
DbSteadyRead(dt) ==
    /\ Steady
    /\ db_now < SettleUntil
    /\ db_now' = db_now + dt
    /\ \E r \in {TimedDebounce_read(db, db_now + dt, SteadyValue)} :
          /\ db' = r.db
          /\ db_ret' = [ok |-> TRUE, value |-> r.ret]
          /\ db_hold' = IF r.started
                        THEN [active |-> TRUE, s |-> db.state, start |-> db_now + dt]
                        ELSE db_hold
    /\ UNCHANGED <<db_log, db_frame>>

DbSteadyPoll == \E dt \in DtChoices : DbSteadyRead(dt)

DebounceLiveNext ==
    \/ \E dt \in DtChoices : \E sample \in BOOLEAN : DbPrefixRead(dt, sample)
    \/ \E dt \in DtChoices : DbPrefixReadErr(dt)
    \/ DbSteadyPoll

SpecDebounceLive ==
    DebounceInit /\ [][DebounceLiveNext]_vars /\ WF_vars(DbSteadyPoll)

(***************************************************************************)
(* A RotEnc polled over two inputs (SpecRotEnc).                           *)
(***************************************************************************)
MaxReOps == 4
Samples == {STATES_CLOCKWISE[i] : i \in 1..4}
IdleBursts == {199, 200}
\* the poll counter at the start: 1, 2^32 - 202 and 2^32 - 3
InitTicks == {U32One, <<Limb - 1, Limb - 202>>, <<Limb - 1, Limb - 3>>}

Polling == Len(re_log) < MaxReOps /\ re_ret # "panic"

\* enc.read() with the pins reading sample
ReRead(sample) ==
    /\ Polling
    /\ \E r \in RotEnc_read(re, sample) :
          /\ re' = r.enc
          /\ re_ret' = r.ret
          /\ re_log' = Append(re_log, [sample |-> sample, n |-> 1,
                                       rot |-> r.rot, ret |-> r.ret])
    /\ UNCHANGED <<re_start, re_frame>>

\* n calls of enc.read() in a row with the pins not moving
ReReadIdle(n) ==
    /\ Polling
    /\ re' = RotEnc_idle(re, n)
    /\ re_ret' = "None"
    /\ re_log' = Append(re_log, [sample |-> re.state, n |-> n,
                                 rot |-> 0, ret |-> "None"])
    /\ UNCHANGED <<re_start, re_frame>>

\* enc.read() with a pin failing
ReReadErr ==
    /\ Polling
    /\ re_ret # "Io"
    /\ \E r \in {RotEnc_read_err(re)} :
          /\ re' = r.enc
          /\ re_ret' = r.ret
    /\ UNCHANGED <<re_log, re_start, re_frame>>

RotEncNext ==
    \/ \E sample \in Samples : ReRead(sample)
    \/ \E n \in IdleBursts : ReReadIdle(n)
    \/ ReReadErr

RotEncInit ==
    /\ GpioIdle /\ DbIdle /\ CvIdle /\ PwmIdle /\ ClkIdle /\ SbIdle /\ MlIdle /\ AppIdle
    /\ re_start \in InitTicks
    /\ re = [RotEnc_new EXCEPT !.ticks = re_start]
    /\ re_ret = "none"
    /\ re_log = <<>>

SpecRotEnc == RotEncInit /\ [][RotEncNext]_vars

(***************************************************************************)
(* The divisor conversions applied in turn (SpecDivisor).                  *)
(***************************************************************************)
DiviChoices == {0, 1, 2, 100, 4094, 4095, 4096}
DivfChoices == {0, 1, 512, 1023, 1024, 2048, 4095, 4096}
\* divisors given as such: 0.0, 0.5, 1 + 1/4096, 4095 + 4095/4096, 4096.0
DivisorChoices == {0, 2048, 4097, 16777215, 16777216}

\* divi_divf_to_divisor(cv.divi, cv.divf)
CvToDivisor ==
    /\ cv.stage = "pair"
    /\ \E r \in {divi_divf_to_divisor(cv.divi, cv.divf)} :
          cv' = IF r.ok THEN [cv EXCEPT !.stage = "divisor", !.divisor = r.divisor]
                        ELSE [cv EXCEPT !.stage = "rejected"]
    /\ UNCHANGED cv_frame

\* divisor_to_divi_divf(cv.divisor)
CvToPair ==
    /\ cv.stage = "divisor"
    /\ cv' = [cv EXCEPT !.stage = "back", !.out = divisor_to_divi_divf(cv.divisor)]
    /\ UNCHANGED cv_frame

DivisorNext == CvToDivisor \/ CvToPair

DivisorInit ==
    /\ GpioIdle /\ DbIdle /\ ReIdle /\ PwmIdle /\ ClkIdle /\ SbIdle /\ MlIdle /\ AppIdle
    /\ \/ \E divi \in DiviChoices : \E divf \in DivfChoices :
             cv = [stage |-> "pair", given |-> "pair", divi |-> divi, divf |-> divf,
                   divisor |-> 0, out |-> NoPair]
       \/ \E d \in DivisorChoices :
             cv = [stage |-> "divisor", given |-> "divisor", divi |-> 0, divf |-> 0,
                   divisor |-> d, out |-> NoPair]

SpecDivisor == DivisorInit /\ [][DivisorNext]_vars

(***************************************************************************)
(* A RawPwmDriver and its pins (SpecPwm).  A RawPwmPin has no Drop: the    *)
(* bit of a channel stays set once the channel was handed out.             *)
(***************************************************************************)
PwmChannels == 0..PWM_PIN_COUNT
\* nanoseconds asked for: 49 and 1000, as u32
NsChoices == {<<0, 49>>, <<0, 1000>>}
\* register contents found at start: all clear, all set, and a mixed one
PwmImages ==
    {[w \in PwmWords |-> {}],
     [w \in PwmWords |-> WordBits],
     [w \in PwmWords |-> IF w = PWM_CTL THEN Word(2062647587) ELSE Word(20)]}

\* driver.get_pin(index)
PwmGetPin(index) ==
    /\ pwm' = PwmBegin(pwm)
    /\ IF index >= PWM_PIN_COUNT
       THEN pwm_last' = Call("get_pin", <<index>>, "InvalidArgument")
            /\ UNCHANGED <<pwm_used, pwm_pins>>
       ELSE IF index \in pwm_used
       THEN pwm_last' = Call("get_pin", <<index>>, "AlreadyInUse")
            /\ UNCHANGED <<pwm_used, pwm_pins>>
       ELSE pwm_last' = Call("get_pin", <<index>>, "Ok")
            /\ pwm_used' = pwm_used \cup {index}
            /\ pwm_pins' = pwm_pins \cup {index}
    /\ pwm_ret' = U32Zero
    /\ UNCHANGED pwm_frame

\* the Box<dyn PwmPin> of channel c goes out of scope: RawPwmPin has no
\* Drop, so nothing but the handle goes
PwmDropPin(c) ==
    /\ c \in pwm_pins
    /\ pwm_pins' = pwm_pins \ {c}
    /\ pwm' = PwmBegin(pwm)
    /\ pwm_last' = Call("drop", <<c>>, "Ok")
    /\ pwm_ret' = U32Zero
    /\ UNCHANGED <<pwm_used, pwm_frame>>

PwmCall(op, c, arg, r) ==
    /\ c \in pwm_pins
    /\ pwm' = r.hw
    /\ pwm_last' = Call(op, <<c, arg>>, r.res)
    /\ pwm_ret' = U32Zero
    /\ UNCHANGED <<pwm_used, pwm_pins, pwm_frame>>

\* a getter of a live pin: nothing is written
PwmGet(op, c, r) ==
    /\ c \in pwm_pins
    /\ pwm' = PwmBegin(pwm)
    /\ pwm_last' = Call(op, <<c>>, r.res)
    /\ pwm_ret' = r.val
    /\ UNCHANGED <<pwm_used, pwm_pins, pwm_frame>>

\* pin.period_ns()
PwmPeriodNs(c) == \E r \in period_ns(pwm, c) : PwmGet("period_ns", c, r)

\* pin.duty_ns()
PwmDutyNs(c) == \E r \in duty_ns(pwm, c) : PwmGet("duty_ns", c, r)

\* pin.set_polarity(polarity)
PwmSetPolarity(c, new_polarity) ==
    \E r \in {set_polarity(PwmBegin(pwm), c, new_polarity)} :
        PwmCall("set_polarity", c, new_polarity, r)

\* pin.is_enabled()
PwmIsEnabled(c) ==
    /\ c \in pwm_pins
    /\ pwm' = PwmBegin(pwm)
    /\ pwm_last' = Call("is_enabled", <<c>>, "Ok")
    /\ pwm_ret' = get_enabled(pwm, c)
    /\ UNCHANGED <<pwm_used, pwm_pins, pwm_frame>>

\* pin.enable()
PwmEnable(c) ==
    \E r \in {init_channel(PwmBegin(pwm), c)} : PwmCall("enable", c, 0, r)

\* pin.disable()
PwmDisable(c) ==
    \E r \in {reset_channel(PwmBegin(pwm), c)} : PwmCall("disable", c, 0, r)

\* pin.set_period_ns(ns)
PwmSetPeriodNs(c, ns) ==
    \E r \in {set_period_ns(PwmBegin(pwm), c, ns)} : PwmCall("set_period_ns", c, ns, r)

\* pin.set_duty_ns(ns)
PwmSetDutyNs(c, ns) ==
    \E r \in {set_duty_ns(PwmBegin(pwm), c, ns)} : PwmCall("set_duty_ns", c, ns, r)

PwmNext ==
    \/ \E index \in PwmChannels : PwmGetPin(index)
    \/ \E c \in pwm_pins : PwmDropPin(c)
    \/ \E c \in pwm_pins : PwmEnable(c)
    \/ \E c \in pwm_pins : PwmDisable(c)
    \/ \E c \in pwm_pins : PwmIsEnabled(c)
    \/ \E c \in pwm_pins : \E ns \in NsChoices : PwmSetPeriodNs(c, ns)
    \/ \E c \in pwm_pins : \E ns \in NsChoices : PwmSetDutyNs(c, ns)
    \/ \E c \in pwm_pins : \E new_polarity \in PwmPolarity : PwmSetPolarity(c, new_polarity)

PwmInit ==
    /\ GpioIdle /\ DbIdle /\ ReIdle /\ CvIdle /\ ClkIdle /\ SbIdle /\ MlIdle /\ AppIdle
    /\ \E image \in PwmImages : pwm = [regs |-> image, wr |-> {}]
    /\ pwm_used = {}
    /\ pwm_pins = {}
    /\ pwm_ret = U32Zero
    /\ pwm_last = NoCall

SpecPwm == PwmInit /\ [][PwmNext]_vars

(***************************************************************************)
(* The nanosecond calls of two leased RawPwmPins (SpecPwmNs).              *)
(***************************************************************************)
\* nanoseconds asked for: 49, 50, 65539 and 2^32 - 1, as u32
WideNsChoices == {<<0, 49>>, <<0, 50>>, <<1, 3>>, <<Limb - 1, Limb - 1>>}

PwmNsNext ==
    \/ \E c \in pwm_pins : \E ns \in WideNsChoices : PwmSetPeriodNs(c, ns)
    \/ \E c \in pwm_pins : \E ns \in WideNsChoices : PwmSetDutyNs(c, ns)
    \/ \E c \in pwm_pins : PwmPeriodNs(c)
    \/ \E c \in pwm_pins : PwmDutyNs(c)

\* after get_pin(0) and get_pin(1)
PwmNsInit ==
    /\ GpioIdle /\ DbIdle /\ ReIdle /\ CvIdle /\ ClkIdle /\ SbIdle /\ MlIdle /\ AppIdle
    /\ \E image \in PwmImages : pwm = [regs |-> image, wr |-> {}]
    /\ pwm_used = 0..(PWM_PIN_COUNT - 1)
    /\ pwm_pins = 0..(PWM_PIN_COUNT - 1)
    /\ pwm_ret = U32Zero
    /\ pwm_last = Call("get_pin", <<1>>, "Ok")

SpecPwmNs == PwmNsInit /\ [][PwmNsNext]_vars

(***************************************************************************)
(* A RawClockDriver (SpecClock).  The words found at start stand for what  *)
(* the first read of a register returns.                                   *)
(***************************************************************************)
\* register contents found at start: all clear, all set, a top byte of
\* 0x01 over set fields, and a top byte of 0x5A over a DIVI of 50
ClkImages ==
    {[w \in {CM_CTL, CM_DIV} |-> {}],
     [w \in {CM_CTL, CM_DIV} |-> WordBits],
     [w \in {CM_CTL, CM_DIV} |-> Word(16778774)],
     [w \in {CM_CTL, CM_DIV} |-> Word(1510154240)]}
\* divisors asked for: 0.0, 0.5, 1.0, 50.25, 4095 + 4095/4096, 4096.0, 70000.0
SetDivisorChoices == {0, 2048, 4096, 205824, 16777215, 16777216, 286720000}
MashChoices == {"None", "Mash3"}
SourceChoices == {"Ground", "Oscillator", "PllD"}

ClkCall(op, arg, r) ==
    /\ clk' = r.hw
    /\ clk_last' = Call(op, <<arg>>, r.res)
    /\ clk_ret' = NoDivisor
    /\ UNCHANGED clk_frame

\* clock.set_enabled(enabled)
ClkSetEnabled(enabled) ==
    \E r \in {set_enabled(ClkBegin(clk), enabled)} : ClkCall("set_enabled", enabled, r)

\* clock.set_mash_mode(mode)
ClkSetMashMode(mode) ==
    \E r \in {set_mash_mode(ClkBegin(clk), mode)} : ClkCall("set_mash_mode", mode, r)

\* clock.set_source(source)
ClkSetSource(source) ==
    \E r \in {set_source(ClkBegin(clk), source)} : ClkCall("set_source", source, r)

\* clock.set_divisor(divisor)
ClkSetDivisor(divisor) ==
    \E r \in {set_divisor(ClkBegin(clk), divisor)} : ClkCall("set_divisor", divisor, r)

\* clock.divisor()
ClkDivisor ==
    /\ clk' = ClkBegin(clk)
    /\ clk_ret' = RawClockDriver_divisor(clk)
    /\ clk_last' = Call("divisor", <<>>,
                        IF clk_ret'.ok THEN "Ok" ELSE "InvalidArgument")
    /\ UNCHANGED clk_frame

ClockNext ==
    \/ ClkDivisor
    \/ \E enabled \in BOOLEAN : ClkSetEnabled(enabled)
    \/ \E mode \in MashChoices : ClkSetMashMode(mode)
    \/ \E source \in SourceChoices : ClkSetSource(source)
    \/ \E divisor \in SetDivisorChoices : ClkSetDivisor(divisor)

ClockInit ==
    /\ GpioIdle /\ DbIdle /\ ReIdle /\ CvIdle /\ PwmIdle /\ SbIdle /\ MlIdle /\ AppIdle
    /\ \E image \in ClkImages : clk = [regs |-> image, wr |-> <<>>]
    /\ clk_last = NoCall
    /\ clk_ret = NoDivisor

SpecClock == ClockInit /\ [][ClockNext]_vars

(***************************************************************************)
(* Two pins of any backends, set up one by one and then lent to a          *)
(* SoftGpioBus (SpecSoft).  The bus borrows the pins mutably: while it is  *)
(* alive the pins are reached through it only.                             *)
(***************************************************************************)
\* the values set
CapChoices ==
    [active_level |-> {"High", "Low"}, bias |-> {"None", "PullUp"},
     drive_mode |-> {"PushPull", "OpenDrain"}]

\* a setter of pin k, called before the bus is made
SbPinSet(k, cap, v) ==
    /\ ~sb.bus
    /\ \E r \in {Pin_set(sb.pins[k], cap, v)} :
          /\ sb' = [sb EXCEPT !.pins[k] = r.pin]
          /\ sb_last' = Call("set", <<k, cap, v>>, r.res)
    /\ UNCHANGED sb_frame

\* a getter of pin k
SbPinGet(k, cap) ==
    /\ ~sb.bus
    /\ sb_last' = Call("get", <<k, cap>>, Pin_get(sb.pins[k], cap))
    /\ UNCHANGED <<sb, sb_frame>>

\* SoftGpioBus::new(pins)
SoftNew ==
    /\ ~sb.bus
    /\ sb' = [sb EXCEPT !.bus = TRUE]
    /\ sb_last' = Call("new", <<0>>, "Ok")
    /\ UNCHANGED sb_frame

\* the bus goes out of scope: the pins are free again
SoftDrop ==
    /\ sb.bus
    /\ sb' = [sb EXCEPT !.bus = FALSE]
    /\ sb_last' = Call("drop", <<0>>, "Ok")
    /\ UNCHANGED sb_frame

\* a setter of the bus (index 0 stands for the bus)
SoftSet(cap, v) ==
    /\ sb.bus
    /\ \E r \in {Soft_set(sb.pins, cap, v)} :
          /\ sb' = [sb EXCEPT !.pins = r.pins]
          /\ sb_last' = Call("set", <<0, cap, v>>, r.res)
    /\ UNCHANGED sb_frame

\* a getter of the bus
SoftGet(cap) ==
    /\ sb.bus
    /\ sb_last' = Call("get", <<0, cap>>, Soft_get(sb.pins, cap))
    /\ UNCHANGED <<sb, sb_frame>>

SoftNext ==
    \/ \E k \in 1..2 : \E cap \in Caps : \E v \in CapChoices[cap] : SbPinSet(k, cap, v)
    \/ \E k \in 1..2 : \E cap \in Caps : SbPinGet(k, cap)
    \/ SoftNew
    \/ SoftDrop
    \/ \E cap \in Caps : \E v \in CapChoices[cap] : SoftSet(cap, v)
    \/ \E cap \in Caps : SoftGet(cap)

SoftInit ==
    /\ GpioIdle /\ DbIdle /\ ReIdle /\ CvIdle /\ PwmIdle /\ ClkIdle /\ MlIdle /\ AppIdle
    /\ \E a, b \in PinBackends :
          sb = [pins |-> <<[kind |-> a, val |-> CapDefault],
                           [kind |-> b, val |-> CapDefault]>>,
                bus |-> FALSE]
    /\ sb_last = NoCall

SpecSoft == SoftInit /\ [][SoftNext]_vars

(***************************************************************************)
(* The same driver called from several threads (&RawGpioDriver is Sync).   *)
(* A step of a thread is one access to used_pins (a load of an element, or *)
(* one set_aliased) with the thread-local code around it, or the register  *)
(* writes between two such accesses.  thr[t].pc is the next step of t.     *)
(***************************************************************************)
Step(t, pc, req, k, held, res) ==
    thr' = [thr EXCEPT ![t] = [pc |-> pc, req |-> req, k |-> k,
                                held |-> held, res |-> res]]

\* get_pin, lines 202-208: the range check and the load of the bit
T_GetPinTest(t, index) ==
    /\ thr[t].pc = "idle" /\ thr[t].held = NoHandle
    /\ IF index >= PIN_COUNT
       THEN Step(t, "idle", <<index>>, 0, NoHandle, "InvalidArgument")
       ELSE IF TestBit(used_pins, index)
       THEN Step(t, "idle", <<index>>, 0, NoHandle, "AlreadyInUse")
       ELSE Step(t, "gp_set", <<index>>, 0, NoHandle, "none")
    /\ UNCHANGED <<gpio_vars, rel, thread_frame>>

\* get_pin, line 210: set_aliased(index, true)
T_GetPinSet(t) ==
    /\ thr[t].pc = "gp_set"
    /\ used_pins' = set_aliased(used_pins, thr[t].req[1], TRUE)
    /\ Step(t, "gp_reset", thr[t].req, 0, NoHandle, "none")
    /\ UNCHANGED <<hw, handles, g_last, rel, thread_frame>>

\* get_pin, lines 211-219: raw_reset and the handle returned
T_GetPinReset(t) ==
    /\ thr[t].pc = "gp_reset"
    /\ \E r \in {raw_reset(BeginCall(hw), thr[t].req[1])} :
          /\ hw' = r.hw
          /\ Step(t, "idle", thr[t].req, 0, NewPin(thr[t].req[1]), r.res)
    /\ UNCHANGED <<used_pins, handles, g_last, rel, thread_frame>>

\* get_pin_bus, lines 223-227: the range check
T_BusRange(t, indices) ==
    /\ thr[t].pc = "idle" /\ thr[t].held = NoHandle
    /\ IF \E k \in 1..Len(indices) : indices[k] >= PIN_COUNT
       THEN Step(t, "idle", indices, 0, NoHandle, "InvalidArgument")
       ELSE Step(t, "gb_test", indices, 1, NoHandle, "none")
    /\ UNCHANGED <<gpio_vars, rel, thread_frame>>

\* get_pin_bus, line 229: any() loads the bit of the next index
T_BusTest(t) ==
    /\ thr[t].pc = "gb_test"
    /\ IF TestBit(used_pins, thr[t].req[thr[t].k])
       THEN Step(t, "idle", thr[t].req, 0, NoHandle, "AlreadyInUse")
       ELSE IF thr[t].k < Len(thr[t].req)
       THEN Step(t, "gb_test", thr[t].req, thr[t].k + 1, NoHandle, "none")
       ELSE Step(t, "gb_set", thr[t].req, 1, NoHandle, "none")
    /\ UNCHANGED <<gpio_vars, rel, thread_frame>>

\* get_pin_bus, line 234: set_aliased(index, true) for the next index
T_BusSet(t) ==
    /\ thr[t].pc = "gb_set"
    /\ used_pins' = set_aliased(used_pins, thr[t].req[thr[t].k], TRUE)
    /\ Step(t, "gb_reset", thr[t].req, thr[t].k, NoHandle, "none")
    /\ UNCHANGED <<hw, handles, g_last, rel, thread_frame>>

\* get_pin_bus, lines 235-243: raw_reset of that index; after the last
\* index, the handle returned
T_BusReset(t) ==
    /\ thr[t].pc = "gb_reset"
    /\ \E r \in {raw_reset(BeginCall(hw), thr[t].req[thr[t].k])} :
          /\ hw' = r.hw
          /\ IF thr[t].k < Len(thr[t].req)
             THEN Step(t, "gb_set", thr[t].req, thr[t].k + 1, NoHandle, "none")
             ELSE Step(t, "idle", thr[t].req, 0, NewBus(thr[t].req), r.res)
    /\ UNCHANGED <<used_pins, handles, g_last, rel, thread_frame>>

\* Drop for RawGpioPin, line 314: set_aliased(pin_index, false)
T_DropPin(t) ==
    /\ thr[t].pc = "idle" /\ thr[t].held.kind = "pin"
    /\ used_pins' = set_aliased(used_pins, thr[t].held.pins[1], FALSE)
    /\ Step(t, "idle", thr[t].held.pins, 0, NoHandle, "dropped")
    /\ UNCHANGED <<hw, handles, g_last, rel, thread_frame>>

\* Drop for RawGpioBus begins
T_DropBus(t) ==
    /\ thr[t].pc = "idle" /\ thr[t].held.kind = "bus"
    /\ Step(t, "db_input", thr[t].held.pins, 1, thr[t].held, "none")
    /\ UNCHANGED <<gpio_vars, rel, thread_frame>>

\* Drop for RawGpioBus, lines 428-430: every pin of the bus to input
T_DropBusInputs(t) ==
    /\ thr[t].pc = "db_input"
    /\ hw' = AllToInput(BeginCall(hw), thr[t].req, 1)
    /\ Step(t, "db_clear", thr[t].req, thr[t].k, thr[t].held, "none")
    /\ UNCHANGED <<used_pins, handles, g_last, rel, thread_frame>>

\* Drop for RawGpioBus, line 431: set_aliased(pin_index, false)
T_DropBusClear(t) ==
    /\ thr[t].pc = "db_clear"
    /\ used_pins' = set_aliased(used_pins, thr[t].req[thr[t].k], FALSE)
    /\ IF thr[t].k < Len(thr[t].req)
       THEN Step(t, "db_input", thr[t].req, thr[t].k + 1, thr[t].held, "none")
       ELSE Step(t, "idle", thr[t].req, 0, NoHandle, "dropped")
    /\ UNCHANGED <<hw, handles, g_last, rel, thread_frame>>

\* RawGpioPin::as_output, line 268: the function of the pin set to output
T_AsOutput(t) ==
    /\ thr[t].pc = "idle" /\ thr[t].held.kind = "pin"
    /\ thr[t].held.view = "none"
    /\ \E r \in {raw_set_pin_function(BeginCall(hw), thr[t].held.pins[1], 1)} :
          /\ hw' = r.hw
          /\ Step(t, "idle", thr[t].req, 0,
                  [thr[t].held EXCEPT !.view = "output"], r.res)
    /\ UNCHANGED <<used_pins, handles, g_last, rel, thread_frame>>

RacePins == {7, 8, 58}
RaceBuses == {<<7, 8>>, <<8, 7>>, <<8, 58>>}

RaceInit ==
    /\ RestIdle
    /\ used_pins = NoPinsUsed
    /\ hw = ZeroBlock
    /\ handles = {}
    /\ g_last = NoCall
    /\ nib = NoNibble
    /\ ThreadsIdle

RaceNext ==
    \E t \in Threads :
        \/ \E i \in RacePins : T_GetPinTest(t, i)
        \/ T_GetPinSet(t)
        \/ T_GetPinReset(t)
        \/ \E q \in RaceBuses : T_BusRange(t, q)
        \/ T_BusTest(t)
        \/ T_BusSet(t)
        \/ T_BusReset(t)
        \/ T_DropPin(t)
        \/ T_DropBus(t)
        \/ T_DropBusInputs(t)
        \/ T_DropBusClear(t)

SpecRace == RaceInit /\ [][RaceNext]_vars

(***************************************************************************)
(* SpecDropOrder: two threads lease pin 8 or a bus whose first pin is 8,   *)
(* drive the pin and drop their handles.  The pins of the bus have their   *)
(* function fields in three different words.                               *)
(***************************************************************************)
DropOrderBus == <<8, 17, 26>>
DropOrderPin == DropOrderBus[1]

DropOrderNext ==
    \E t \in Threads :
        \/ T_GetPinTest(t, DropOrderPin)
        \/ T_GetPinSet(t)
        \/ T_GetPinReset(t)
        \/ T_AsOutput(t)
        \/ T_BusRange(t, DropOrderBus)
        \/ T_BusTest(t)
        \/ T_BusSet(t)
        \/ T_BusReset(t)
        \/ T_DropPin(t)
        \/ T_DropBus(t)
        \/ T_DropBusInputs(t)
        \/ T_DropBusClear(t)

SpecDropOrder == RaceInit /\ [][DropOrderNext]_vars

(***************************************************************************)
(* SpecRelease: thread A holds the handle of index rel.i and drops it      *)
(* while thread B calls get_pin(rel.j), j # i, j free; the indices in      *)
(* rel.others are held by handles that stay alive throughout.              *)
(***************************************************************************)
ReleasePins == {0, 7, 8, 57}

\* used_pins with exactly the bits of `pins` set
SetAll(pins) ==
    [e \in DOMAIN NoPinsUsed |->
        {i % ElemBits : i \in {p \in pins : p \div ElemBits = e}}]

ReleaseInit ==
    /\ RestIdle
    /\ hw \in InitBlocks
    /\ handles = {}
    /\ g_last = NoCall
    /\ nib = NoNibble
    /\ \E i \in ReleasePins : \E j \in ReleasePins \ {i} :
       \E others \in SUBSET (ReleasePins \ {i, j}) :
          /\ rel = [i |-> i, j |-> j, others |-> others]
          /\ used_pins = SetAll(others \cup {i})
          /\ thr = [t \in Threads |->
                       IF t = "A" THEN [Idle EXCEPT !.held = NewPin(i)] ELSE Idle]

ReleaseNext ==
    \/ T_DropPin("A")
    \/ thr["B"].res = "none" /\ T_GetPinTest("B", rel.j)
    \/ T_GetPinSet("B")
    \/ T_GetPinReset("B")

SpecRelease == ReleaseInit /\ [][ReleaseNext]_vars

(***************************************************************************)
(* Claims about the allocator used from one thread (Spec).                 *)
(***************************************************************************)
InRange(req) == \A k \in 1..Len(req) : req[k] < PIN_COUNT

\* C1: an index is held by at most one live handle and its bit is set
\* exactly while a live handle holds it; get_pin(i) returns AlreadyInUse
\* exactly when a live handle holds i and succeeds otherwise (so it succeeds
\* again once the handle is released); a get_pin_bus over valid indices
\* returns AlreadyInUse exactly when a live handle holds one of them.
C1_ExclusiveLease ==
    /\ [](/\ \A i \in Held(handles) : Cardinality(Holders(handles, i)) = 1
          /\ UsedSet(used_pins) = Held(handles))
    /\ [][(g_last'.op = "get_pin" /\ InRange(g_last'.req)) =>
             /\ g_last'.res = "AlreadyInUse" <=> g_last'.req[1] \in Held(handles)
             /\ g_last'.res = "Ok" <=> g_last'.req[1] \notin Held(handles)]_vars
    /\ [][(g_last'.op = "get_pin_bus" /\ InRange(g_last'.req)) =>
             /\ g_last'.res = "AlreadyInUse"
                  <=> Range(g_last'.req) \cap Held(handles) # {}
             /\ g_last'.res = "Ok"
                  <=> Range(g_last'.req) \cap Held(handles) = {}]_vars

\* a second get_pin(i) was refused while the first handle for i is alive
C1_Witness ==
    /\ g_last.op = "get_pin"
    /\ g_last.res = "AlreadyInUse"
    /\ NewPin(g_last.req[1]) \in handles

\* C2: a get_pin_bus that names an out-of-range or a leased index fails,
\* and a failed get_pin_bus leaves the allocation bitset, the register block
\* and the live handles as they were, having written no register.
C2_BusAllOrNothing ==
    [][g_last'.op = "get_pin_bus" =>
         /\ (~InRange(g_last'.req) \/ Range(g_last'.req) \cap Held(handles) # {})
               => g_last'.res \in {"InvalidArgument", "AlreadyInUse"}
         /\ g_last'.res # "Ok" =>
               /\ used_pins' = used_pins
               /\ hw'.wr = {}
               /\ BeginCall(hw') = BeginCall(hw)
               /\ handles' = handles]_vars

\* a bus request was refused for one leased index while another index of
\* the request is free
C2_Witness ==
    /\ g_last.op = "get_pin_bus"
    /\ g_last.res = "AlreadyInUse"
    /\ \E k \in 1..Len(g_last.req) : ~TestBit(used_pins, g_last.req[k])

\* the sequence names some index more than once
Repeats(indices) == Cardinality(Range(indices)) < Len(indices)

\* C34: the indices of every bus handle are pairwise distinct: a
\* get_pin_bus whose request repeats an index returns an error and leaves
\* used_pins as it was.
C34_DistinctBusPins ==
    [][/\ \A h \in handles' : ~Repeats(h.pins)
       /\ (g_last'.op = "get_pin_bus" /\ Repeats(g_last'.req)) =>
             /\ g_last'.res \in GpioError
             /\ used_pins' = used_pins
      ]_vars

\* get_pin_bus([8, 8]) returned a bus whose two lines are pin 8
C34_PinHeldTwice ==
    /\ g_last = Call("get_pin_bus", <<8, 8>>, "Ok")
    /\ NewBus(<<8, 8>>) \in handles
    /\ TestBit(used_pins, 8)

\* the latch bit of a pin in the output-set / output-clear state
LatchHigh(blk, pin) == (pin % 32) \in blk.out[pin \div 32]

\* C18: after a get_pin or a get_pin_bus that returned Ok, every pin asked
\* for has function field 000, pull field 00 and a low output latch,
\* whatever the registers held before.
C18_LeasedPinReset ==
    [][(g_last'.op \in {"get_pin", "get_pin_bus"} /\ g_last'.res = "Ok") =>
         \A k \in 1..Len(g_last'.req) :
            LET i == g_last'.req[k] IN
            /\ raw_get_pin_function(hw', i) = 0
            /\ raw_get_bias(hw', i) = 0
            /\ ~LatchHigh(hw', i)
      ]_vars

\* get_pin(8) succeeded over a block that had every pin in output function
\* with pulls set and the latch of pin 8 high: pin 8 is reset, its
\* neighbours are as they were
C18_Witness ==
    /\ g_last = Call("get_pin", <<8>>, "Ok")
    /\ raw_get_pin_function(hw, 8) = 0 /\ raw_get_bias(hw, 8) = 0 /\ ~LatchHigh(hw, 8)
    /\ IsOutput(hw.fsel, 9) /\ raw_get_bias(hw, 9) # 0 /\ LatchHigh(hw, 10)

(***************************************************************************)
(* Claims about a single pin (SpecPin).                                    *)
(***************************************************************************)
\* C14: when a RawGpioPin is dropped its bit is clear and the pin is in
\* input function with no pull, also after it was an output or had a pull.
C14_DropLeavesSafe ==
    [][g_last'.op = "drop_pin" =>
         LET i == g_last'.req.pins[1] IN
         /\ ~TestBit(used_pins', i)
         /\ raw_get_pin_function(hw', i) = 0
         /\ raw_get_bias(hw', i) = 0
      ]_vars

\* pin 8 was leased over a clear block, given a pull-up, made an output
\* and written high, then dropped: its bit is clear and the pin still
\* drives the line high with the pull-up set
C14_StillDriving ==
    /\ g_last.op = "drop_pin" /\ g_last.req.pins = <<8>>
    /\ g_last.req.view = "output"
    /\ ~TestBit(used_pins, 8)
    /\ \A j \in 0..(PIN_COUNT - 1) : j # 8 => ~IsOutput(hw.fsel, j)
    /\ IsOutput(hw.fsel, 8) /\ LatchHigh(hw, 8) /\ raw_get_pin_level(hw, 8)
    /\ raw_get_bias(hw, 8) = 1

\* C16: write(v) on the output view of a pin takes v through the active
\* level to a level p, then through the drive mode: PushPull drives p in
\* output function; OpenDrain drives low in output function for p low and
\* puts the pin in input function for p high; OpenSource drives high in
\* output function for p high and puts the pin in input function for p low.
C16_WriteDrives ==
    [][g_last'.op = "write" =>
         LET h == g_last'.req.pin
             i == h.pins[1]
             p == (g_last'.req.value <=> h.active_level = "High")
             driven == \/ h.drive_mode = "PushPull"
                       \/ (h.drive_mode = "OpenDrain" /\ ~p)
                       \/ (h.drive_mode = "OpenSource" /\ p)
         IN  /\ g_last'.res = "Ok"
             /\ IF driven
                THEN /\ raw_get_pin_function(hw', i) = 1
                     /\ LatchHigh(hw', i) <=> p
                     /\ raw_get_pin_level(hw', i) <=> p
                ELSE raw_get_pin_function(hw', i) = 0
      ]_vars

\* write(false) on an active-low open-drain output: the level is high, the
\* pin floats in input function while its output view is alive
C16_Witness ==
    /\ g_last.op = "write"
    /\ g_last.req.pin.drive_mode = "OpenDrain"
    /\ g_last.req.pin.active_level = "Low"
    /\ g_last.req.value = FALSE
    /\ g_last.req.pin \in handles
    /\ raw_get_pin_function(hw, 8) = 0

\* the bits <<word, bit>> in which two register banks differ
ChangedBits(old, new) ==
    {wb \in (DOMAIN old) \X WordBits : (wb[2] \in old[wb[1]]) # (wb[2] \in new[wb[1]])}
\* the function-select field and the pull field of pin i
FselBits(i) == {<<i \div 10, b>> : b \in ((i % 10) * 3)..((i % 10) * 3 + 2)}
PudBits(i) == {<<i \div 16, b>> : b \in ((i % 16) * 2)..((i % 16) * 2 + 1)}

\* C35: as_input and as_output of pin i change no register bit outside
\* the 3-bit field at (i mod 10) * 3 of function-select word i / 10 and
\* leave that field at 0 and 1; set_bias changes no register bit outside
\* the 2-bit field at (i mod 16) * 2 of pull word i / 16; the reset of
\* get_pin, which calls both, changes no bit outside the two fields.
C35_OnlyOwnField ==
    [][/\ (g_last'.op \in {"as_input", "as_output"} /\ g_last'.res = "Ok") =>
               LET i == g_last'.req.pins[1] IN
               /\ ChangedBits(hw.fsel, hw'.fsel) \subseteq FselBits(i)
               /\ raw_get_pin_function(hw', i)
                     = (IF g_last'.op = "as_output" THEN 1 ELSE 0)
               /\ hw'.pud = hw.pud /\ hw'.out = hw.out
               /\ hw'.wr = {GPFSEL + i \div 10}
       /\ (g_last'.op = "set_bias" /\ g_last'.res = "Ok") =>
               LET i == g_last'.req.pins[1] IN
               /\ ChangedBits(hw.pud, hw'.pud) \subseteq PudBits(i)
               /\ hw'.fsel = hw.fsel /\ hw'.out = hw.out
               /\ hw'.wr = {GPPUD + i \div 16}
       /\ (g_last'.op = "get_pin" /\ g_last'.res = "Ok") =>
               LET i == g_last'.req[1] IN
               /\ ChangedBits(hw.fsel, hw'.fsel) \subseteq FselBits(i)
               /\ ChangedBits(hw.pud, hw'.pud) \subseteq PudBits(i)
      ]_vars

\* pin 8 was made an output and pulled up next to pins 7 and 9, whose
\* fields were set before the driver mapped the block
C35_Witness ==
    /\ g_last.op = "set_bias" /\ g_last.res = "Ok"
    /\ raw_get_bias(hw, 8) = 1 /\ raw_get_pin_function(hw, 8) = 1
    /\ raw_get_bias(hw, 7) = 1 /\ raw_get_bias(hw, 9) = 1
    /\ raw_get_pin_function(hw, 7) = 1 /\ raw_get_pin_function(hw, 9) = 1

(***************************************************************************)
(* Claims about a 4-wide bus (SpecBus).                                    *)
(***************************************************************************)
\* C15: when a RawGpioBus is dropped every one of its bits is clear and
\* every one of its pins is in input function, whatever view the bus had
\* and whatever its drive mode.
C15_BusDropInputs ==
    [][g_last'.op = "drop_bus" =>
         \A k \in 1..Len(g_last'.req.pins) :
            LET i == g_last'.req.pins[k] IN
            /\ ~TestBit(used_pins', i)
            /\ raw_get_pin_function(hw', i) = 0
      ]_vars

\* an open-source bus was dropped with its output view alive after a line
\* was driven high: no bit is set and all four pins are inputs
C15_Witness ==
    /\ g_last.op = "drop_bus"
    /\ g_last.req.view = "output" /\ g_last.req.drive_mode = "OpenSource"
    /\ LatchHigh(hw, 7)
    /\ UsedSet(used_pins) = {}
    /\ \A k \in 1..4 : raw_get_pin_function(hw, g_last.req.pins[k]) = 0

\* the 4-wide bus alive, if any
TheBus == CHOOSE h \in handles : TRUE

\* C8: bit i of a nibble is line i of the bus.  A write_nibble(v), v < 16,
\* on a push-pull bus puts on line i the level the active-level policy gives
\* bit i of v, and a read_nibble of the same lines under the same policy,
\* nothing having driven them in between, returns v; write_nibble(v) with
\* v >= 16 returns InvalidArgument and writes no register.
C8_NibbleRoundTrip ==
    /\ []((g_last.op = "read_nibble" /\ nib.valid /\ nib.mode = "PushPull"
             /\ TheBus.active_level = nib.level) => g_last.res = nib.value)
    /\ []((g_last.op = "write_nibble" /\ g_last.res = "Ok" /\ nib.mode = "PushPull")
            => \A k \in 1..4 :
                  raw_get_pin_level(hw, TheBus.pins[k])
                    = ActiveLevel_get_state(nib.level, BitOf(nib.value, k - 1)))
    /\ [][g_last'.op = "write_nibble" =>
             /\ g_last'.res = "Ok" <=> g_last'.req[1] < 16
             /\ g_last'.req[1] >= 16 =>
                   /\ g_last'.res = "InvalidArgument"
                   /\ hw'.wr = {}
                   /\ BeginCall(hw') = BeginCall(hw)]_vars

\* the nibble 0b1010 written on an active-low push-pull bus was read back
C8_Witness ==
    /\ g_last.op = "read_nibble"
    /\ g_last.res = 10
    /\ nib.valid /\ nib.value = 10 /\ nib.mode = "PushPull"
    /\ nib.level = "Low" /\ TheBus.active_level = "Low"

(***************************************************************************)
(* Claims about TimedDebounce (SpecDebounce).                              *)
(***************************************************************************)
\* the samples and delays of the scenario: true, true 10 ms later, false
\* 10 ms later, true 60 ms later
ScenarioSamples == <<TRUE, TRUE, FALSE, TRUE>>
ScenarioDelays == <<10, 10, 10, 60>>

InScenario ==
    /\ Len(db_log) = 4
    /\ \A k \in 1..4 : db_log[k].sample = ScenarioSamples[k]
    /\ \A k \in 2..4 : db_log[k].dt = ScenarioDelays[k]

\* C3: once a read started the hold timer over the stable value s, every
\* read taken before DebounceTime has elapsed returns s; and the reads of the
\* scenario return false, false, false, true.
C3_HoldReturnsStable ==
    /\ (db_ret.ok /\ db_hold.active /\ db_now - db_hold.start < DebounceTime)
         => db_ret.value = db_hold.s
    /\ InScenario => [k \in 1..4 |-> db_log[k].ret] = <<FALSE, FALSE, FALSE, TRUE>>

\* the scenario was run and its reads returned false, true, true, true
C3_Scenario ==
    InScenario /\ [k \in 1..4 |-> db_log[k].ret] = <<FALSE, TRUE, TRUE, TRUE>>

\* C26: a read taken while the hold timer runs and has not expired, whose
\* sample equals the stable value from before the transition, cancels the
\* hold: the timer is cleared, the stored value is the pre-transition value
\* and the read returns it.
C26_GlitchReverts ==
    [][(/\ db.changed_since.some
        /\ Len(db_log') = Len(db_log) + 1
        /\ db_now' - db.changed_since.at < DebounceTime
        /\ db_log'[Len(db_log')].sample = db_hold.s)
         => /\ ~db'.changed_since.some
            /\ db'.state = db_hold.s
            /\ db_ret'.value = db_hold.s
      ]_vars

\* the input read true and, 10 ms later, false again: the second read
\* returned true, the timer still runs and true is stored
C26_GlitchKept ==
    /\ Len(db_log) = 2
    /\ db_log[1].sample = TRUE /\ db_log[1].ret = FALSE
    /\ db_log[2] = [dt |-> 10, sample |-> FALSE, ret |-> TRUE]
    /\ db_ret = [ok |-> TRUE, value |-> TRUE]
    /\ db.changed_since.some /\ db.state = TRUE

\* C27: after every read that returned Ok, the stored value is the value
\* that read returned.
C27_StateIsReported ==
    (db_log # <<>> /\ db_ret.ok) => db.state = db_ret.value

\* the first read sampled true: it returned false, started the timer and
\* stored true
C27_UnconfirmedStored ==
    /\ Len(db_log) = 1
    /\ db_log[1].sample = TRUE /\ db_log[1].ret = FALSE
    /\ db_ret = [ok |-> TRUE, value |-> FALSE]
    /\ db.state = TRUE /\ db.changed_since.some

\* C38: a read at which the wrapped input fails returns the error and leaves
\* the stored value and the hold timer as they were; the successful read
\* that follows returns, stores and starts what read() makes of the value
\* and timer from before the failure.
C38_FailedReadKeepsState ==
    [][/\ ~db_ret'.ok =>
            /\ db'.state = db.state
            /\ db'.changed_since = db.changed_since
            /\ db_log' = db_log
       /\ (~db_ret.ok /\ db_ret'.ok) =>
            /\ Len(db_log') = Len(db_log) + 1
            /\ LET r == TimedDebounce_read(db, db_now', db_log'[Len(db_log')].sample)
               IN  db_ret'.value = r.ret /\ db' = r.db
      ]_vars

\* the input failed 60 ms after a read that sampled true had started the
\* hold timer: true is still stored and the timer still runs
C38_Witness ==
    /\ ~db_ret.ok
    /\ Len(db_log) = 1 /\ db_log[1].sample = TRUE
    /\ db.state = TRUE /\ db.changed_since.some
    /\ db_now - db.changed_since.at = 60

\* the last read returned the value the input keeps, which is stored, and
\* no hold timer runs
Settled ==
    /\ Steady
    /\ db_ret = [ok |-> TRUE, value |-> SteadyValue]
    /\ db.state = SteadyValue
    /\ ~db.changed_since.some

\* C39: once the input keeps one value and the polls go on with time
\* passing, from some poll on every read returns that value and no hold
\* timer runs.
C39_Settles == Steady ~> []Settled

\* the input went back to false while the hold timer ran and stayed
\* there: the last read before it stopped changing returned true, and a
\* poll after the hold had run out stored and returned false
C39_Witness ==
    /\ Settled /\ SteadyValue = FALSE
    /\ db_log[LivePrefix].ret = TRUE
    /\ db_hold.active /\ db_hold.s = FALSE
    /\ db_now - db_hold.start >= DebounceTime

(***************************************************************************)
(* Claims about RotEnc (SpecRotEnc).                                       *)
(***************************************************************************)
ClockwiseRun == << <<TRUE, FALSE>>, <<TRUE, TRUE>>, <<FALSE, TRUE>>, <<FALSE, FALSE>> >>

\* the first k reads were single reads of the clockwise sequence
FedClockwise(k) ==
    /\ Len(re_log) >= k
    /\ \A m \in 1..k : re_log[m].n = 1 /\ re_log[m].sample = ClockwiseRun[m]

\* C4 as stated: the four reads of the clockwise sequence emit exactly one
\* Clockwise event and nothing else.
C4_OneEvent ==
    FedClockwise(4) =>
        /\ Cardinality({m \in 1..4 : re_log[m].ret = "Clockwise"}) = 1
        /\ \A m \in 1..4 : re_log[m].ret \in {"Clockwise", "None"}

\* C4: a decoder fresh from new(), last sample (0,0), fed the clockwise
\* sequence (1,0), (1,1), (0,1), (0,0) emits Clockwise on the second and on
\* the fourth read, each completing two accumulated clockwise steps, and no
\* event on the first and the third.
C4_EventPerTwoSteps ==
    \A k \in 1..4 :
        (re_start = U32One /\ FedClockwise(k)) =>
            re_log[k].ret = <<"None", "Clockwise", "None", "Clockwise">>[k]

C4_Witness ==
    /\ re_start = U32One
    /\ FedClockwise(4)
    /\ Len(re_log) = 4
    /\ re_ret = "Clockwise"

RECURSIVE Polls(_, _, _)
\* the number of reads the entries a..b of the log stand for
Polls(log, a, b) == IF a > b THEN 0 ELSE log[a].n + Polls(log, a + 1, b)

\* entry 1 of the log is one clockwise step, entries 2..k-1 are reads with
\* an unchanged sample, reading_limit of them or more, entry k is a step
StaleRun(k) ==
    /\ k <= Len(re_log)
    /\ re_log[1].rot = 1
    /\ \A m \in 2..(k - 1) : re_log[m].sample = re_log[1].sample
    /\ Polls(re_log, 2, k - 1) >= reading_limit
    /\ re_log[k].rot # 0

\* C5: after one clockwise step, reading_limit or more reads with an
\* unchanged sample and one further step in either sense, no read of the
\* sequence has emitted a rotation.
C5_StaleRunDiscarded ==
    \A k \in 3..MaxReOps :
        StaleRun(k) => \A m \in 1..k : re_log[m].ret = "None"

\* the stale run of a decoder whose poll counter wrapped meanwhile ended in
\* a Clockwise event
C5_WrapEmits ==
    /\ re_start = <<Limb - 1, Limb - 202>>
    /\ StaleRun(3)
    /\ re_log[3].ret = "Clockwise"

\* C28: after every read(), a decoder with no run open has a tick count
\* of 0.
C28_NoRunNoTicks ==
    (re_ret # "panic" /\ ~re.reading_start.some) => re.tick_count = 0

\* a run opened at poll 2^32 - 201 and 200 unchanged reads later the poll
\* counter wrapped on a further unchanged read: no run is open and the tick
\* count is 1
C28_WrapKeepsTicks ==
    /\ re_start = <<Limb - 1, Limb - 202>>
    /\ Len(re_log) = 3
    /\ re_log[1].rot = 1 /\ re_log[2].n = reading_limit
    /\ re_log[3].n = 1 /\ re_log[3].sample = re_log[1].sample
    /\ re_ret = "None"
    /\ re.ticks = U32One
    /\ ~re.reading_start.some /\ re.tick_count = 1

\* a - b for two poll counts a >= b that are less than 2^31 apart
PollsBetween(a, b) == (a[1] - b[1]) * Limb + (a[2] - b[2])

\* C29: after every read(), a recorded run start is at most reading_limit
\* polls behind the poll counter, whether the sample changed or not.
C29_RunWithinTimeout ==
    (re_ret # "panic" /\ re.reading_start.some)
        => PollsBetween(re.ticks, re.reading_start.at) <= reading_limit

\* one clockwise step and 399 unchanged reads later the run is still open
C29_RunOutlivesTimeout ==
    /\ re_start = U32One
    /\ Len(re_log) = 3
    /\ re_log[1].rot = 1 /\ re_log[2].n = 200 /\ re_log[3].n = 199
    /\ re_ret = "None"
    /\ re.reading_start = Some(<<0, 2>>)
    /\ re.ticks = <<0, 401>>
    /\ re.tick_count = 1

\* the step from the state before to the state after is a single read whose
\* sample differs from the last sample in both channels
JumpRead ==
    /\ Len(re_log') = Len(re_log) + 1
    /\ re_log'[Len(re_log')].n = 1
    /\ re_log'[Len(re_log')].sample[1] # re.state[1]
    /\ re_log'[Len(re_log')].sample[2] # re.state[2]

SampleBefore(m) == IF m = 1 THEN RotEnc_new.state ELSE re_log[m - 1].sample

\* every entry of the log kept the sample or moved it by one state of
\* STATES_CLOCKWISE, forwards for sense 1 and backwards for sense 3
OnlySteps(sense) ==
    \A m \in 1..Len(re_log) :
        \/ re_log[m].sample = SampleBefore(m)
        \/ Position(re_log[m].sample) = (Position(SampleBefore(m)) + sense) % 4

\* C31: if every change of the sample was a single clockwise step no read
\* returned CounterClockwise, and if every change was a single
\* counter-clockwise step no read returned Clockwise.
C31_DirectionSound ==
    /\ OnlySteps(1) => \A m \in 1..Len(re_log) : re_log[m].ret # "CounterClockwise"
    /\ OnlySteps(3) => \A m \in 1..Len(re_log) : re_log[m].ret # "Clockwise"

\* two counter-clockwise steps from (0,0) ended in CounterClockwise
C31_Witness ==
    /\ Len(re_log) = 2
    /\ re_log[1].sample = <<FALSE, TRUE>> /\ re_log[2].sample = <<TRUE, TRUE>>
    /\ OnlySteps(3)
    /\ re_ret = "CounterClockwise"

\* C32: after every read() that returns, tick_count lies strictly between
\* -ticks_per_rotation and ticks_per_rotation, and after a read that
\* returned a rotation tick_count is 0 and no run is open.
C32_AccumulatorBounded ==
    re_ret # "panic" =>
        /\ 0 - ticks_per_rotation < re.tick_count
        /\ re.tick_count < ticks_per_rotation
        /\ re_ret \in {"Clockwise", "CounterClockwise"} =>
              re.tick_count = 0 /\ ~re.reading_start.some

\* the second clockwise step of a run emitted Clockwise and left the
\* accumulator at 0 with no run open
C32_Witness ==
    /\ re_start = U32One
    /\ Len(re_log) = 2
    /\ re_log[1].rot = 1 /\ re_log[1].ret = "None"
    /\ re_log[2].rot = 1 /\ re_log[2].ret = "Clockwise"
    /\ re.tick_count = 0 /\ ~re.reading_start.some

\* the step from the state before to the state after is a single read
\* that returned or panicked
SingleRead ==
    /\ Len(re_log') = Len(re_log) + 1
    /\ re_log'[Len(re_log')].n = 1

\* C33: no read() overflows: none panics; a read that counts the first
\* step of a run and emits nothing leaves that run open, its timeout test
\* comparing the true start + reading_limit with the poll counter; and a
\* read at poll counter 2^32 - 1 leaves the counter at 1.
C33_NoOverflow ==
    [][SingleRead =>
         /\ re_ret' # "panic"
         /\ (/\ re_log'[Len(re_log')].rot # 0
             /\ re_ret' = "None"
             /\ ~re.reading_start.some) => re'.reading_start = Some(re'.ticks)
         /\ re.ticks = <<Limb - 1, Limb - 1>> => re'.ticks = U32One
      ]_vars

\* the read at poll 2^32 - 2 counted a clockwise step, opened a run and
\* panicked in start + reading_limit
C33_AdditionPanics ==
    /\ re_start = <<Limb - 1, Limb - 3>>
    /\ Len(re_log) = 1
    /\ re_log[1].rot = 1
    /\ re_ret = "panic"
    /\ re.reading_start = Some(<<Limb - 1, Limb - 2>>)

(***************************************************************************)
(* Claims about the divisor conversions (SpecDivisor).                     *)
(***************************************************************************)
\* C6: for DIVI in 1..4095 and DIVF in 0..4095, divisor_to_divi_divf of
\* divi_divf_to_divisor(DIVI, DIVF) is Ok((DIVI, DIVF)); and
\* divisor_to_divi_divf(0.0) is an error.
C6_DivisorRoundTrip ==
    /\ (/\ cv.given = "pair"
        /\ cv.divi \in 1..MaxField /\ cv.divf \in 0..MaxField
        /\ cv.stage \in {"back", "rejected"})
         => cv.out = [ok |-> TRUE, divi |-> cv.divi, divf |-> cv.divf]
    /\ (cv.given = "divisor" /\ cv.divisor = 0 /\ cv.stage = "back") => ~cv.out.ok

\* the pair (1, 1024) came back as (2, 0)
C6_Carry ==
    /\ cv.given = "pair" /\ cv.divi = 1 /\ cv.divf = 1024
    /\ cv.stage = "back"
    /\ cv.out = [ok |-> TRUE, divi |-> 2, divf |-> 0]

(***************************************************************************)
(* Claims about the PWM driver (SpecPwm).                                  *)
(***************************************************************************)
\* bits 8c .. 8c+7 of a word, moved down to 0 .. 7
SubFieldOf(w, c) == And(Shr(w, c * SubField), Word(255))

OthersKept(c) ==
    /\ \A w \in PwmWords \ {PWM_CTL} : pwm'.regs[w] = pwm.regs[w]
    /\ \A bit \in WordBits \ ((SubField * c)..(SubField * c + 7)) :
          bit \in pwm'.regs[PWM_CTL] <=> bit \in pwm.regs[PWM_CTL]

OnlyWord(w) ==
    /\ pwm'.wr = {w}
    /\ \A x \in PwmWords \ {w} : pwm'.regs[x] = pwm.regs[x]

\* C7: enable() and disable() of channel c change only bits 8c .. 8c+7 of
\* the control register (to PWEN | MSEN and to 0): the other channel's
\* sub-field, bits 16-31 and every other register are as before; and
\* set_period_ns / set_duty_ns of channel c write only the range / data word
\* of channel c, with the cycles the nanoseconds make.
C7_ChannelIsolation ==
    [][LET c == pwm_last'.req[1] IN
       /\ pwm_last'.op \in {"enable", "disable"} =>
            /\ pwm_last'.res = "Ok"
            /\ pwm'.wr = {PWM_CTL}
            /\ OthersKept(c)
            /\ SubFieldOf(pwm'.regs[PWM_CTL], c)
                 = IF pwm_last'.op = "enable" THEN {0, 7} ELSE {}
       /\ pwm_last'.op = "set_period_ns" =>
            /\ OnlyWord(PWM_RNG + PwmStride * c)
            /\ pwm'.regs[PWM_RNG + PwmStride * c] = U32Word(U32Div(pwm_last'.req[2], NsPerCycle))
       /\ pwm_last'.op = "set_duty_ns" =>
            /\ OnlyWord(PWM_DAT + PwmStride * c)
            /\ pwm'.regs[PWM_DAT + PwmStride * c] = U32Word(U32Div(pwm_last'.req[2], NsPerCycle))
      ]_vars

\* channel 1 was enabled over a control register whose channel 0 sub-field
\* and bits 16-31 are not all clear
C7_Witness ==
    /\ pwm_last.op = "enable" /\ pwm_last.req[1] = 1
    /\ SubFieldOf(pwm.regs[PWM_CTL], 0) \notin {{}, {0, 7}}
    /\ Shr(pwm.regs[PWM_CTL], 16) # {}
    /\ get_enabled(pwm, 1)

\* the call that has just returned is op of channel c
JustCalled(op, c) == pwm_last'.op = op /\ pwm_last'.req[1] = c

\* C37: enable() of channel c leaves its sub-field of the control register
\* with PWEN (bit 0) and MSEN (bit 7) set and MODE (bit 1) and the rest
\* clear, disable() leaves all 8 bits clear, no other call changes the
\* sub-field, and is_enabled() returns whether PWEN is set: true from an
\* enable() to the next disable(), false from a disable() to the next
\* enable(), whatever the calls before and between.
C37_EnableLifeCycle ==
    [][\A c \in 0..(PWM_PIN_COUNT - 1) :
         LET before == SubFieldOf(pwm.regs[PWM_CTL], c)
             after == SubFieldOf(pwm'.regs[PWM_CTL], c)
         IN  /\ JustCalled("enable", c) => after = {0, 7}
             /\ JustCalled("disable", c) => after = {}
             /\ ~(JustCalled("enable", c) \/ JustCalled("disable", c))
                   => after = before
             /\ JustCalled("is_enabled", c) =>
                   /\ pwm_last'.res = "Ok"
                   /\ pwm_ret' = (0 \in before)
                   /\ (pwm_last.op = "enable" /\ pwm_last.req[1] = c)
                         => pwm_ret' = TRUE
                   /\ (pwm_last.op = "disable" /\ pwm_last.req[1] = c)
                         => pwm_ret' = FALSE
      ]_vars

\* is_enabled() of channel 0 returned true: the channel was enabled over a
\* control register with every bit set, channel 1 was disabled after that
C37_Witness ==
    /\ pwm_last = Call("is_enabled", <<0>>, "Ok")
    /\ pwm_ret = TRUE
    /\ SubFieldOf(pwm.regs[PWM_CTL], 0) = {0, 7}
    /\ SubFieldOf(pwm.regs[PWM_CTL], 1) = {}
    /\ Shr(pwm.regs[PWM_CTL], 16) = Word(65535)

\* C13: get_pin(i) of the PWM driver returns InvalidArgument for i >= 2,
\* AlreadyInUse exactly while a live handle of channel i exists, and Ok
\* otherwise: a channel whose handle was released is handed out again.
C13_ChannelReclaimed ==
    [][pwm_last'.op = "get_pin" =>
         LET i == pwm_last'.req[1] IN
         pwm_last'.res = IF i >= PWM_PIN_COUNT THEN "InvalidArgument"
                         ELSE IF i \in pwm_pins THEN "AlreadyInUse"
                         ELSE "Ok"
      ]_vars

\* get_pin(0) was refused although no handle of channel 0 is alive
C13_StillLeased ==
    /\ pwm_last = Call("get_pin", <<0>>, "AlreadyInUse")
    /\ 0 \notin pwm_pins
    /\ 0 \in pwm_used

\* C19: set_polarity of a RawPwmPin returns an error of GpioError to its
\* caller: it neither returns Ok nor panics.
C19_PolarityFails ==
    [][pwm_last'.op = "set_polarity" => pwm_last'.res \in GpioError]_vars

\* set_polarity(Inversed) of channel 0 ended in a panic with no register
\* written
C19_PolarityPanics ==
    /\ pwm_last = Call("set_polarity", <<0, "Inversed">>, "panic")
    /\ pwm.wr = {}

\* p - (p mod 50) of a u32 p
Truncated50(p) ==
    LET rem == ((p[1] % 50) * Limb + p[2]) % 50
    IN  IF p[2] >= rem THEN <<p[1], p[2] - rem>> ELSE <<p[1] - 1, p[2] + Limb - rem>>

\* C20: period_ns() right after a set_period_ns(p) of the same pin returns
\* Ok(p - (p mod 50)), with no overflow, for p up to 2^32 - 1; and so does
\* duty_ns() right after set_duty_ns(p).
C20_NsTruncated ==
    [][LET set_then_get ==
               \/ (pwm_last.op = "set_period_ns" /\ pwm_last'.op = "period_ns")
               \/ (pwm_last.op = "set_duty_ns" /\ pwm_last'.op = "duty_ns")
       IN  (set_then_get /\ pwm_last.req[1] = pwm_last'.req[1])
             => /\ pwm_last.res = "Ok"
                /\ pwm_last'.res = "Ok"
                /\ pwm_ret' = Truncated50(pwm_last.req[2])
      ]_vars

\* period_ns() returned 65500 after set_period_ns(65539), and the data
\* register of the channel holds a value whose product with 50 leaves u32
C20_Witness ==
    /\ pwm_last = Call("period_ns", <<1>>, "Ok")
    /\ pwm_ret = <<0, 65500>>
    /\ pwm.regs[PWM_RNG + PwmStride] = Word(1310)
    /\ pwm.regs[PWM_DAT + PwmStride] = WordBits

(***************************************************************************)
(* Claims about the clock driver (SpecClock).                              *)
(***************************************************************************)
TopByte(w) == Shr(w, 24)

\* C11: every word set_enabled, set_mash_mode, set_source and set_divisor
\* write has 0x5A in bits 24-31, whatever the register held when read.
C11_PasswordOnWrite ==
    \A k \in 1..Len(clk.wr) : TopByte(clk.wr[k].value) = Word(Password)

\* set_enabled over a word read with bit 24 set wrote a top byte of 0x5B
C11_PasswordSpoiled ==
    /\ clk_last.op = "set_enabled"
    /\ Len(clk.wr) = 1
    /\ TopByte(clk.wr[1].value) = Word(Password + 1)

\* bits 12-23 of a word, moved down to 0 .. 11
DiviOf(w) == And(Shr(w, 12), Word(MaxField))

\* C12: set_divisor of a divisor whose integer part is 0 or above 4095
\* returns InvalidArgument, writes no register and leaves CM_DIV as it was;
\* a set_divisor that writes puts the integer part, in 1..4095, in DIVI.
C12_DivisorRejected ==
    [][clk_last'.op = "set_divisor" =>
         LET int_part == clk_last'.req[1] \div DivisorUnit IN
         IF int_part = 0 \/ int_part > MaxField
         THEN /\ clk_last'.res = "InvalidArgument"
              /\ clk'.wr = <<>>
              /\ clk'.regs = clk.regs
         ELSE /\ clk_last'.res = "Ok"
              /\ Len(clk'.wr) = 1 /\ clk'.wr[1].idx = CM_DIV
              /\ DiviOf(clk'.regs[CM_DIV]) = Word(int_part)
              /\ DiviOf(clk'.regs[CM_DIV]) # {}
              /\ clk'.regs[CM_CTL] = clk.regs[CM_CTL]
      ]_vars

\* set_divisor(0.5) was refused over a CM_DIV that holds a DIVI of 50
C12_Witness ==
    /\ clk_last = Call("set_divisor", <<2048>>, "InvalidArgument")
    /\ DiviOf(clk.regs[CM_DIV]) = Word(50)

\* bits 0-23 in which two words differ
ChangedLow(old, new) == ((old \ new) \cup (new \ old)) \cap (0..23)
\* the field of CM_CTL a setter is for, and the value it is to hold
CtlField(op) ==
    CASE op = "set_enabled" -> {4}
      [] op = "set_mash_mode" -> {9, 10}
      [] op = "set_source" -> 0..3
CtlValue(op, arg) ==
    CASE op = "set_enabled" -> IF arg THEN {4} ELSE {}
      [] op = "set_mash_mode" -> Shl(Word(MashMode_to_index(arg)), 9)
      [] op = "set_source" -> Word(ClockSource_to_index(arg))

\* C36: set_enabled, set_mash_mode and set_source write CM_CTL once and
\* nothing else; of bits 0-23 the word written differs from the word read
\* in the setter's own field only (bit 4, bits 9-10, bits 0-3), which holds
\* the value asked for.  set_divisor writes no word but CM_DIV.
C36_OwnFieldOnly ==
    [][/\ clk_last'.op \in {"set_enabled", "set_mash_mode", "set_source"} =>
            /\ Len(clk'.wr) = 1 /\ clk'.wr[1].idx = CM_CTL
            /\ ChangedLow(clk.regs[CM_CTL], clk'.wr[1].value)
                  \subseteq CtlField(clk_last'.op)
            /\ clk'.wr[1].value \cap CtlField(clk_last'.op)
                  = CtlValue(clk_last'.op, clk_last'.req[1])
            /\ clk'.regs[CM_DIV] = clk.regs[CM_DIV]
       /\ clk_last'.op = "set_divisor" =>
            /\ \A k \in 1..Len(clk'.wr) : clk'.wr[k].idx = CM_DIV
            /\ clk'.regs[CM_CTL] = clk.regs[CM_CTL]
      ]_vars

\* set_source(PllD) wrote a CM_CTL whose bits 4-23 were all set when read
C36_Witness ==
    /\ clk_last = Call("set_source", <<"PllD">>, "Ok")
    /\ Len(clk.wr) = 1
    /\ clk.wr[1].value \cap (0..23) = (4..23) \cup {1, 2}
    /\ clk.regs[CM_DIV] = WordBits

\* C24: a divisor() that follows a successful set_divisor(d) returns
\* trunc(d) + floor(frac(d) * 1024) / 1024, which is d itself for a whole d;
\* a divisor() over a CM_DIV whose DIVI field is 0 returns InvalidArgument.
C24_DivisorReadBack ==
    [][clk_last'.op = "divisor" =>
         /\ (clk_last.op = "set_divisor" /\ clk_last.res = "Ok") =>
               LET d == clk_last.req[1]
                   whole == d \div DivisorUnit
                   frac == ((d % DivisorUnit) * FracScale) \div DivisorUnit
               IN  /\ clk_last'.res = "Ok"
                   /\ clk_ret' = [ok |-> TRUE,
                                  divisor |-> whole * DivisorUnit
                                              + frac * (DivisorUnit \div FracScale)]
                   /\ d % DivisorUnit = 0 => clk_ret'.divisor = d
         /\ DiviOf(clk.regs[CM_DIV]) = {} =>
               /\ clk_last'.res = "InvalidArgument"
               /\ ~clk_ret'.ok
         /\ clk'.regs = clk.regs /\ clk'.wr = <<>>
      ]_vars

\* divisor() returned 4095 + 1023/1024, which only a set_divisor of
\* 4095 + 4095/4096 leaves in CM_DIV
C24_Witness ==
    /\ clk_last = Call("divisor", <<>>, "Ok")
    /\ clk_ret = [ok |-> TRUE, divisor |-> 16777212]
    /\ clk.regs[CM_DIV] \cap (0..23) = (0..23) \ {10, 11}

(***************************************************************************)
(* Claims about the optional settings (SpecSoft).                          *)
(***************************************************************************)
\* whether the pin or bus of index t reports the setting as supported, and
\* what its getter returns
Supported(state, t, cap) ==
    IF t = 0 THEN Soft_supports(state.pins, cap) ELSE Pin_supports(state.pins[t], cap)
Getter(state, t, cap) ==
    IF t = 0 THEN Soft_get(state.pins, cap) ELSE Pin_get(state.pins[t], cap)

\* C17: a setter of a pin or a bus whose supports_* is false returns
\* NotSupported and changes nothing, and the getter of the setting returns
\* the default (High / None / PushPull).
C17_UnsupportedKeepsDefault ==
    [][(sb_last'.op = "set" /\ ~Supported(sb, sb_last'.req[1], sb_last'.req[2])) =>
         /\ sb_last'.res = "NotSupported"
         /\ sb' = sb
         /\ Getter(sb', sb_last'.req[1], sb_last'.req[2]) = CapDefault[sb_last'.req[2]]
      ]_vars

\* a SoftGpioBus of a RawGpioPin with drive mode OpenDrain and a GpiodPin:
\* set_drive_mode is refused and drive_mode() is OpenDrain
C17_SoftGetterNotDefault ==
    /\ sb.bus
    /\ sb.pins[1].kind = "Raw" /\ sb.pins[2].kind = "Gpiod"
    /\ sb_last = Call("set", <<0, "drive_mode", "PushPull">>, "NotSupported")
    /\ ~Soft_supports(sb.pins, "drive_mode")
    /\ Soft_get(sb.pins, "drive_mode") = "OpenDrain"

(***************************************************************************)
(* Claims about the allocator called from two threads.                     *)
(***************************************************************************)
\* the indices of the handle thread t holds
HeldBy(t) == Range(thr[t].held.pins)

\* C9: allocation is an atomic test-and-set: of two threads that ask for
\* the same free index, at most one obtains a handle, so two threads never
\* hold handles over a common index.
C9_OneWinner ==
    \A t1 \in Threads : \A t2 \in Threads \ {t1} :
        HeldBy(t1) \cap HeldBy(t2) = {}

\* both threads hold a handle of pin 7
C9_TwoHolders ==
    thr["A"].held = NewPin(7) /\ thr["B"].held = NewPin(7)

\* C10: when A has released index i and B has allocated index j, bit i is
\* clear, bit j is set and every other bit is as it was; at every moment
\* before that, the bits are those of the other handles, of i until A clears
\* it, and of j once B has set it.
C10_ReleaseKeepsNeighbours ==
    UsedSet(used_pins) =
        rel.others
        \cup (IF thr["A"].held # NoHandle THEN {rel.i} ELSE {})
        \cup (IF thr["B"].pc = "gp_reset" \/ thr["B"].held # NoHandle
              THEN {rel.j} ELSE {})

\* A has released i and B holds j, both bits living in one element
C10_Witness ==
    /\ thr["A"].res = "dropped"
    /\ thr["B"].held = NewPin(rel.j)
    /\ rel.i \div ElemBits = rel.j \div ElemBits
    /\ rel.others # {}

(***************************************************************************)
(* A Melody and the calls of MelodyExt on it (SpecMelody).                 *)
(***************************************************************************)
MaxSegments == 3
\* segments: two notes and the pause, lasting 0, 250 or 500 ms
Segments == [note : {"C4", "D4", "None"}, dur : {0, 250, 500}]
\* the instants asked for, in ms
TimeChoices == {0 - 5, 0, 249, 250, 499, 500, 750, 1000, 1250, 1500}

MelodyInit ==
    /\ GpioIdle /\ DbIdle /\ ReIdle /\ CvIdle /\ PwmIdle /\ ClkIdle /\ SbIdle
    /\ AppIdle
    /\ \E n \in 0..MaxSegments : ml \in [1..n -> Segments]
    /\ ml_last = NoCall

\* melody.duration()
MlDuration ==
    /\ ml_last' = Call("duration", <<>>, Melody_duration(ml))
    /\ UNCHANGED <<ml, ml_frame>>

\* melody.get_note_at(t)
MlGetNoteAt(t) ==
    /\ ml_last' = Call("get_note_at", <<t>>, Melody_get_note_at(ml, t))
    /\ UNCHANGED <<ml, ml_frame>>

MelodyNext ==
    \/ MlDuration
    \/ \E t \in TimeChoices : MlGetNoteAt(t)

SpecMelody == MelodyInit /\ [][MelodyNext]_vars

(***************************************************************************)
(* Claims about the melody (SpecMelody).                                   *)
(***************************************************************************)
RECURSIVE StartOf(_)
\* the instant at which segment k of ml starts: the durations before it
StartOf(k) == IF k = 1 THEN 0 ELSE StartOf(k - 1) + ml[k - 1].dur

\* the segments of ml whose interval [start, start + dur) contains t
SegmentsAt(t) ==
    {k \in 1..Len(ml) : StartOf(k) <= t /\ t < StartOf(k) + ml[k].dur}

\* C21: for a melody of segments of non-negative duration, duration()
\* is the sum of the segment durations, and get_note_at(t) is the note of
\* the segment whose interval [start, start + dur) contains t: None for a
\* pause, for t < 0 and for t >= duration().
C21_NoteOfSegment ==
    /\ ml_last.op = "duration" => ml_last.res = StartOf(Len(ml) + 1)
    /\ ml_last.op = "get_note_at" =>
          LET t == ml_last.req[1] IN
          /\ \A k \in SegmentsAt(t) : ml_last.res = ml[k].note
          /\ SegmentsAt(t) = {} => ml_last.res = "None"
          /\ (t < 0 \/ t >= StartOf(Len(ml) + 1)) => ml_last.res = "None"

\* at 750 ms, the start of the third segment and the end of the pause
\* before it, the note of the third segment is returned
C21_Witness ==
    /\ ml = <<[note |-> "C4", dur |-> 500], [note |-> "None", dur |-> 250],
              [note |-> "D4", dur |-> 500]>>
    /\ ml_last.op = "get_note_at" /\ ml_last.req = <<750>>
    /\ ml_last.res = "D4"

(***************************************************************************)
(* An App and its updates (SpecApp).  SpecAppLive adds what the loop of    *)
(* main gives: updates whose reads succeed keep coming, 1 ms or more       *)
(* apart.                                                                  *)
(***************************************************************************)
\* Config: the password and the unlock time in seconds
Configs == {[password |-> <<1, 2>>, unlock_seconds |-> 2]}
LiveConfigs == {[password |-> <<9>>, unlock_seconds |-> 1],
                [password |-> <<9>>, unlock_seconds |-> 2]}
\* last_update.elapsed(), in ms
ElapsedChoices == {0, 1000}
Rotations == {"None", "Clockwise", "CounterClockwise"}

AppInit ==
    /\ GpioIdle /\ DbIdle /\ ReIdle /\ CvIdle /\ PwmIdle /\ ClkIdle /\ SbIdle
    /\ MlIdle
    /\ \E config \in Configs :
          app = App_new(config.password, config.unlock_seconds)
    /\ app_last = NoUpdate

AppLiveInit ==
    /\ GpioIdle /\ DbIdle /\ ReIdle /\ CvIdle /\ PwmIdle /\ ClkIdle /\ SbIdle
    /\ MlIdle
    /\ \E config \in LiveConfigs :
          app = App_new(config.password, config.unlock_seconds)
    /\ app_last = NoUpdate

\* app.update(last_update)
AppUpdate(rotation, ok_pressed, elapsed, forced_unlock, fault) ==
    /\ \E r \in {App_update(app, rotation, ok_pressed, elapsed, forced_unlock, fault)} :
          /\ app' = r.app
          /\ app_last' = [rotation |-> rotation,
                          forced_unlock |-> forced_unlock,
                          elapsed |-> elapsed, res |-> r.res]
    /\ UNCHANGED app_frame

\* an update whose calls all succeed, after some time has passed
AppTick ==
    \E rotation \in Rotations : \E ok_pressed, forced_unlock \in BOOLEAN :
    \E elapsed \in ElapsedChoices \ {0} :
        AppUpdate(rotation, ok_pressed, elapsed, forced_unlock, "none")

AppNext ==
    \E rotation \in Rotations : \E ok_pressed, forced_unlock \in BOOLEAN :
    \E elapsed \in ElapsedChoices : \E fault \in Faults :
        AppUpdate(rotation, ok_pressed, elapsed, forced_unlock, fault)

SpecApp == AppInit /\ [][AppNext]_vars
SpecAppLive == AppLiveInit /\ [][AppNext]_vars /\ WF_vars(AppTick)

(***************************************************************************)
(* Claims about the lock (SpecApp, SpecAppLive).                           *)
(***************************************************************************)
\* the update of this step read the OK button pressed after released, and
\* no rotation
PressedNoRotation ==
    /\ ~app.prev_ok_state /\ app'.prev_ok_state
    /\ app_last'.rotation = "None"

\* C22: an update takes the lock from Locked to Unlocked only if it read
\* the forced-unlock pin true, or read the OK button pressed after
\* released, no rotation, and the digits entered equal the password; an
\* update that returns Ok on such a press with a wrong entry of full length
\* and no forced unlock leaves the lock Locked with the input cleared.
C22_UnlockNeedsPassword ==
    [][app.state = "Locked" =>
         /\ app'.state = "Unlocked" =>
               \/ app_last'.forced_unlock
               \/ PressedNoRotation /\ app.input = app.password
         /\ (/\ app_last'.res = "Ok"
             /\ ~app_last'.forced_unlock
             /\ PressedNoRotation
             /\ Len(app.input) >= Len(app.password)
             /\ app.input # app.password)
               => app'.state = "Locked" /\ app'.input = <<>>
      ]_vars

\* the password 1 2 was entered and the OK press unlocked the lock
C22_Witness ==
    /\ app.password = <<1, 2>>
    /\ app.state = "Unlocked"
    /\ app.remaining = app.unlock_seconds * 1000
    /\ app.audio_state = [some |-> TRUE, melody |-> "unlock", elapsed |-> 0]
    /\ ~app_last.forced_unlock /\ app_last.rotation = "None"
    /\ app_last.res = "Ok" /\ app_last.elapsed > 0
    /\ app.prev_ok_state

\* C23: an update that unlocks sets the remaining time to unlock_seconds;
\* while Unlocked no update increases it, an update that returns Ok
\* subtracts the elapsed time, and the lock leaves Unlocked only for Locked
\* with empty input; with updates that keep coming after a positive
\* elapsed time, an Unlocked lock is eventually Locked with empty input.
C23_UnlockedForATime ==
    /\ [][/\ (app.state # "Unlocked" /\ app'.state = "Unlocked")
               => app'.remaining = app.unlock_seconds * 1000
          /\ app.state = "Unlocked" =>
               /\ app'.state \in {"Unlocked", "Locked"}
               /\ app'.state = "Unlocked" =>
                     /\ app'.remaining <= app.remaining
                     /\ app_last'.res = "Ok" =>
                           app'.remaining = app.remaining - app_last'.elapsed
               /\ app'.state = "Locked" => app'.input = <<>>
         ]_vars
    /\ (app.state = "Unlocked") ~> (app.state = "Locked" /\ app.input = <<>>)

\* the lock is Locked with no input while the melody of the unlocking is
\* still in the audio state: the unlock time of 1 s ran out
C23_Witness ==
    /\ app.unlock_seconds = 1
    /\ app.state = "Locked" /\ app.input = <<>>
    /\ app.audio_state = [some |-> TRUE, melody |-> "unlock", elapsed |-> 2000]
    /\ app_last.elapsed > 0 /\ app_last.res = "Ok"

(***************************************************************************)
(* Claims about the order of a release (SpecDropOrder).                    *)
(***************************************************************************)
\* the step clears the allocation bit of pin p
ClearsBit(p) == TestBit(used_pins, p) /\ ~TestBit(used_pins', p)

\* the indices whose bit the bus drop of thread t has cleared so far
ClearedByDrop(t) == {thr[t].req[n] : n \in 1..(thr[t].k - 1)}

\* C25: a release resets the hardware of a pin before it clears the pin's
\* allocation bit, so the bit of a pin is cleared while its function is
\* input; and the register writes of a bus drop touch no pin whose bit that
\* drop has already cleared.
C25_ResetThenClear ==
    [][/\ \A p \in Range(DropOrderBus) :
             ClearsBit(p) => ~IsOutput(hw.fsel, p)
       /\ \A t \in Threads :
             (thr[t].pc = "db_input" /\ thr'[t].pc = "db_clear") =>
                 \A p \in ClearedByDrop(t) : (GPFSEL + p \div 10) \notin hw'.wr
      ]_vars

\* A dropped the bus and cleared the bit of pin 8, B leased pin 8 and made
\* it an output, and the second pass of A's drop wrote the function word of
\* pin 8: the pin B holds as an output is an input
C25_ReleasedPinRewritten ==
    /\ thr["A"].pc = "db_clear" /\ thr["A"].k = 2
    /\ thr["A"].req = DropOrderBus
    /\ thr["B"].held.kind = "pin" /\ thr["B"].held.pins = <<DropOrderPin>>
    /\ thr["B"].held.view = "output"
    /\ (GPFSEL + DropOrderPin \div 10) \in hw.wr
    /\ ~IsOutput(hw.fsel, DropOrderPin)

====
